---- MODULE Spec2Model ----
(***************************************************************************)
(* A model of the windz adaptive poll scheduler (internal/observations),   *)
(* the SSE broadcast hub (internal/sse) and the live endpoint that binds   *)
(* them.  Times are whole seconds; a time.Duration is a number of seconds. *)
(***************************************************************************)
EXTENDS Integers, Sequences, FiniteSets, TLC

VARIABLES
    now,                 \* wall clock, seconds (time.Now())
    pollingStates,       \* manager.pollingStates: station -> PollingState, partial
    windData,            \* manager.windData: station -> WindObservation, partial
    pollingStatesMutex,  \* [writer, readers] of manager.pollingStatesMutex
    sched,               \* the scheduler goroutine: position and locals of its round
    reader,              \* a GetPollingState caller: position and the copy it returned
    clients,             \* sse manager.clients: client id -> channel, partial
    lastCall,            \* client id -> the last of AddClient/RemoveClient that returned
    chans,               \* every channel made so far: its buffer and how often it was closed
    ticks,               \* number of ticker firings so far
    missRun,             \* per station: misses in a row since the last success or demotion
    u,                   \* one call of a pure function: its input and its result
    proc,                \* the process: isRunning, stopCh, the persisted files
    conns,               \* per channel made: the handleSSE call that made it
    published            \* the messages a hub publisher handed to Broadcast, in order

vars == <<now, pollingStates, windData, pollingStatesMutex, sched, reader,
          clients, lastCall, chans, ticks, missRun, u, proc, conns, published>>

otherVars == <<proc, conns, published>>

-----------------------------------------------------------------------------
(* Program constants *)

IntervalFast == 60
IntervalMedium == 600
IntervalSlow == 3600
IntervalUltraSlow == 86400

maxBatchSize == 20

\* time.Time{}: the zero time of a PollingState that was never polled
ZeroTime == 0
\* now.Sub(zero time) saturates at the largest Duration; here the largest
\* number of the model's integers
MaxDuration == 2147483647

-----------------------------------------------------------------------------
(* Bounds of the model *)

\* the clock value at construction
StartTime == 200000
\* ticker firings explored
MaxTicks == 2
\* ticker firings explored beside a caller of GetPollingState
MaxLockTicks == 1
\* channels made by AddClient
MaxChans == 1
\* capacity of a client channel (100 in the program, scaled down)
MaxQueue == 3
\* largest miss count of a PollingState handed to a pure function
MaxMisses == 3

\* the registry, in the order GetAllStations returns it
AllStations == <<"s1", "s2">>
StationIDs == {AllStations[i] : i \in 1..Len(AllStations)}
ClientIDs == {"c1"}
\* the scheduler goroutines a manager may have launched
Goroutines == {"g1"}

\* seconds between two rounds that are explored: two ticker periods, or an hour
\* (the ticker drops ticks for a slow or suspended receiver)
TickSteps == {60, 3600}

-----------------------------------------------------------------------------
(* Values *)

None == "none"

Tiers == {IntervalFast, IntervalMedium, IntervalSlow, IntervalUltraSlow}

\* t.Sub(earlier), saturating for the zero time
Sub(t, earlier) == IF earlier = ZeroTime THEN MaxDuration ELSE t - earlier

\* t.After(other)
After(t, other) == t > other

\* an FMIWindObservation; WindSpeed in tenths of m/s, WindDirection in degrees
FMIWindObservation(ts, speed, direction) ==
    [Timestamp |-> ts, WindSpeed |-> speed, WindDirection |-> direction]

\* a reading from the south-west
Obs(ts, speed) == FMIWindObservation(ts, speed, 225)

NoObservation == FMIWindObservation(ZeroTime, 0, 0)

NewPollingState_polled(id) ==
    [StationID |-> id, CurrentInterval |-> IntervalFast, ConsecutiveMisses |-> 0,
     LastPolled |-> StartTime, LastObservation |-> ZeroTime,
     SuccessRate |-> <<0, 1>>, TotalPolls |-> 0, SuccessfulPolls |-> 0]

\* &PollingState{StationID: id, CurrentInterval: IntervalFast}
NewPollingState(id) ==
    [StationID |-> id, CurrentInterval |-> IntervalFast, ConsecutiveMisses |-> 0,
     LastPolled |-> ZeroTime, LastObservation |-> ZeroTime,
     SuccessRate |-> <<0, 1>>, TotalPolls |-> 0, SuccessfulPolls |-> 0]

\* float64(SuccessfulPolls) / float64(TotalPolls), kept as the pair it divides
Rate(succ, total) == <<succ, total>>

-----------------------------------------------------------------------------
(* Pure functions of the observations manager *)

\* the loop of analyzeObservationIntervals: the gaps kept, in order
RECURSIVE KeptIntervals(_, _)
KeptIntervals(observations, i) ==
    IF i > Len(observations) THEN <<>>
    ELSE LET interval == observations[i].Timestamp - observations[i-1].Timestamp
             rest == KeptIntervals(observations, i + 1)
         IN  IF interval > 30 /\ interval < 7200 THEN <<interval>> \o rest ELSE rest

MinFrom_first(intervals, i, minInterval) == minInterval

\* the minimum loop of analyzeObservationIntervals
RECURSIVE MinFrom(_, _, _)
MinFrom(intervals, i, minInterval) ==
    IF i > Len(intervals) THEN minInterval
    ELSE MinFrom(intervals, i + 1,
                 IF intervals[i] < minInterval THEN intervals[i] ELSE minInterval)

analyzeObservationIntervals(observations) ==
    IF Len(observations) < 2 THEN [d |-> IntervalFast, ok |-> FALSE]
    ELSE LET intervals == KeptIntervals(observations, 2)
         IN  IF Len(intervals) = 0 THEN [d |-> IntervalFast, ok |-> FALSE]
             ELSE [d |-> MinFrom(intervals, 1, intervals[1]), ok |-> TRUE]

roundToStandardInterval_strict(d) ==
    IF d < 90 THEN IntervalFast
    ELSE IF d < 720 THEN IntervalMedium
    ELSE IF d < 4200 THEN IntervalSlow
    ELSE IntervalUltraSlow

roundToStandardInterval_up(d) ==
    IF d <= 90 THEN IntervalMedium
    ELSE IF d <= 720 THEN IntervalSlow
    ELSE IntervalUltraSlow

roundToStandardInterval(d) ==
    IF d <= 90 THEN IntervalFast
    ELSE IF d <= 720 THEN IntervalMedium
    ELSE IF d <= 4200 THEN IntervalSlow
    ELSE IntervalUltraSlow

getNextSlowerInterval_double(current) == current * 2

getNextSlowerInterval(current) ==
    CASE current = IntervalFast -> IntervalMedium
      [] current = IntervalMedium -> IntervalSlow
      [] current = IntervalSlow -> IntervalUltraSlow
      [] OTHER -> IntervalUltraSlow

getEffectivePollingInterval_ultra(baseInterval, hasSSEClients) ==
    IF ~hasSSEClients THEN IntervalUltraSlow ELSE baseInterval

getEffectivePollingInterval(baseInterval, hasSSEClients) ==
    IF ~hasSSEClients THEN IntervalSlow ELSE baseInterval

\* the adaptive interval adjustment of updatePollingState
AdaptInterval_always(current, observations) ==
    IF Len(observations) >= 2
    THEN LET a == analyzeObservationIntervals(observations)
         IN  IF a.ok THEN roundToStandardInterval(a.d) ELSE current
    ELSE current

AdaptInterval(current, observations) ==
    IF Len(observations) >= 2
    THEN LET a == analyzeObservationIntervals(observations)
         IN  IF a.ok /\ a.d < current THEN roundToStandardInterval(a.d) ELSE current
    ELSE current

\* updatePollingState with an empty list that is not counted as a miss
updatePollingState_nomiss(state, observations, t) ==
    LET s1 == [state EXCEPT !.LastPolled = t, !.TotalPolls = @ + 1]
    IN  IF Len(observations) > 0
        THEN LET lastObservation == observations[Len(observations)]
             IN  [state |-> [s1 EXCEPT !.SuccessfulPolls = @ + 1,
                                       !.ConsecutiveMisses = 0,
                                       !.LastObservation = lastObservation.Timestamp,
                                       !.SuccessRate = Rate(s1.SuccessfulPolls + 1,
                                                            s1.TotalPolls),
                                       !.CurrentInterval =
                                           AdaptInterval(@, observations)],
                  obs |-> lastObservation, hadData |-> TRUE]
        ELSE [state |-> [s1 EXCEPT !.SuccessRate = Rate(s1.SuccessfulPolls,
                                                        s1.TotalPolls)],
              obs |-> NoObservation, hadData |-> FALSE]

\* updatePollingState(state, observations) at clock value t:
\* the state it leaves, the observation and the flag it returns
updatePollingState(state, observations, t) ==
    LET s1 == [state EXCEPT !.LastPolled = t, !.TotalPolls = @ + 1]
    IN  IF Len(observations) > 0
        THEN LET lastObservation == observations[Len(observations)]
                 s2 == [s1 EXCEPT !.SuccessfulPolls = @ + 1,
                                  !.ConsecutiveMisses = 0,
                                  !.LastObservation = lastObservation.Timestamp]
                 s3 == [s2 EXCEPT !.SuccessRate = Rate(s2.SuccessfulPolls, s2.TotalPolls)]
             IN  [state |-> [s3 EXCEPT !.CurrentInterval =
                                           AdaptInterval(s3.CurrentInterval, observations)],
                  obs |-> lastObservation, hadData |-> TRUE]
        ELSE LET s2 == [s1 EXCEPT !.ConsecutiveMisses = @ + 1,
                                  !.SuccessRate = Rate(s1.SuccessfulPolls, s1.TotalPolls)]
             IN  [state |-> IF s2.ConsecutiveMisses >= 2
                            THEN [s2 EXCEPT !.CurrentInterval = getNextSlowerInterval(@),
                                            !.ConsecutiveMisses = 0]
                            ELSE s2,
                  obs |-> NoObservation, hadData |-> FALSE]

\* updateFailedPollingState(state) at clock value t
updateFailedPollingState_nocount(state, t) ==
    LET s1 == [state EXCEPT !.ConsecutiveMisses = @ + 1,
                            !.LastPolled = t]
    IN  IF s1.ConsecutiveMisses >= 3
        THEN [s1 EXCEPT !.CurrentInterval = getNextSlowerInterval(@)]
        ELSE s1

updateFailedPollingState(state, t) ==
    LET s1 == [state EXCEPT !.TotalPolls = @ + 1,
                            !.ConsecutiveMisses = @ + 1,
                            !.LastPolled = t]
    IN  IF s1.ConsecutiveMisses >= 3
        THEN [s1 EXCEPT !.CurrentInterval = getNextSlowerInterval(@)]
        ELSE s1

formatInterval(d) ==
    CASE d = IntervalFast -> "1m"
      [] d = IntervalMedium -> "10m"
      [] d = IntervalSlow -> "60m"
      [] d = IntervalUltraSlow -> "24h"
      [] OTHER -> "other"

-----------------------------------------------------------------------------
(* The SSE manager (the hub) *)

\* make(chan Message, 100) for client id c; closed counts the close() calls on
\* it, skipped tells that "channel full, skipping message" was logged for it
NewChan(c) == [id |-> c, buf |-> <<>>, closed |-> 0, skipped |-> FALSE]

\* a partial map with key k set to v, and with key k deleted
MapPut(m, k, v) == [x \in DOMAIN m \cup {k} |-> IF x = k THEN v ELSE m[x]]
MapDel(m, k) == [x \in DOMAIN m \ {k} |-> m[x]]

\* the cases of a select that sends to ch which can proceed at once: the send
\* when the buffer has room, and the default case when the select has one
SelectCases_nodefault(ch) == IF Len(ch.buf) < MaxQueue THEN {"send"} ELSE {}

\* select { case clientChan <- message: default: }
SelectCases(ch) == (IF Len(ch.buf) < MaxQueue THEN {"send"} ELSE {}) \cup {"default"}

\* a send that puts the message at the head of the buffer
TrySend_front(ch, message) ==
    IF "send" \in SelectCases(ch) THEN [ch EXCEPT !.buf = <<message>> \o @]
    ELSE [ch EXCEPT !.skipped = TRUE]

TrySend(ch, message) ==
    IF "send" \in SelectCases(ch) THEN [ch EXCEPT !.buf = Append(@, message)]
    ELSE [ch EXCEPT !.skipped = TRUE]

\* an id that counts the seconds down
Stamp_countdown(message, t) ==
    LET m1 == IF message.Timestamp = ZeroTime THEN [message EXCEPT !.Timestamp = t]
              ELSE message
    IN  IF m1.ID = 0 THEN [m1 EXCEPT !.ID = 0 - m1.Timestamp] ELSE m1

\* Broadcast fills the timestamp and the id of a message that has none
Stamp(message, t) ==
    LET m1 == IF message.Timestamp = ZeroTime THEN [message EXCEPT !.Timestamp = t]
              ELSE message
    IN  IF m1.ID = 0 THEN [m1 EXCEPT !.ID = m1.Timestamp] ELSE m1

Registered(cl) == {cl[c] : c \in DOMAIN cl}

Broadcast_stopAtFull(chs, cl, message, t) ==
    [i \in DOMAIN chs |->
        IF /\ i \in Registered(cl)
           /\ \A k \in Registered(cl) : k < i => Len(chs[k].buf) < MaxQueue
        THEN TrySend(chs[i], Stamp(message, t)) ELSE chs[i]]

\* Broadcast that sends on every channel the hub ever made
Broadcast_everyChannel(chs, cl, message, t) ==
    [i \in DOMAIN chs |-> TrySend(chs[i], Stamp(message, t))]

\* manager.Broadcast: the channels after a try-send to every registered client
Broadcast(chs, cl, message, t) ==
    [i \in DOMAIN chs |->
        IF i \in Registered(cl) THEN TrySend(chs[i], Stamp(message, t)) ELSE chs[i]]

\* Broadcast returns: no select of its loop waits, and no send is to a closed
\* channel (which panics)
BroadcastReturns(chs, cl) ==
    \A i \in Registered(cl) : chs[i].closed = 0 /\ SelectCases(chs[i]) # {}

RECURSIVE BroadcastAll(_, _, _, _)
BroadcastAll(chs, cl, messages, t) ==
    IF messages = <<>> THEN chs
    ELSE BroadcastAll(Broadcast(chs, cl, Head(messages), t), cl, Tail(messages), t)

\* manager.HasClients
HasClients == DOMAIN clients # {}

\* AddClient that registers the new channel and leaves the old one open
AddClient_noclose(c) ==
    /\ chans' = Append(chans, NewChan(c))
    /\ clients' = MapPut(clients, c, Len(chans) + 1)
    /\ lastCall' = MapPut(lastCall, c, "AddClient")

\* manager.ClientCount
ClientCount == Cardinality(DOMAIN clients)

\* manager.AddClient: an existing channel of the id is closed and replaced
AddClient(c) ==
    /\ LET closedOld == IF c \in DOMAIN clients
                        THEN [chans EXCEPT ![clients[c]].closed = @ + 1]
                        ELSE chans
       IN  /\ chans' = Append(closedOld, NewChan(c))
           /\ clients' = MapPut(clients, c, Len(chans) + 1)
    /\ lastCall' = MapPut(lastCall, c, "AddClient")

\* RemoveClient that closes the channel and keeps the map entry
RemoveClient_keep(c) ==
    /\ IF c \in DOMAIN clients
       THEN chans' = [chans EXCEPT ![clients[c]].closed = @ + 1]
       ELSE chans' = chans
    /\ clients' = clients
    /\ lastCall' = MapPut(lastCall, c, "RemoveClient")

\* manager.RemoveClient: a no-op on an id that is not registered
RemoveClient(c) ==
    /\ IF c \in DOMAIN clients
       THEN /\ chans' = [chans EXCEPT ![clients[c]].closed = @ + 1]
            /\ clients' = MapDel(clients, c)
       ELSE UNCHANGED <<clients, chans>>
    /\ lastCall' = MapPut(lastCall, c, "RemoveClient")

-----------------------------------------------------------------------------
(* The polling round of the observations manager *)

Unlocked == [writer |-> None, readers |-> {}]

\* m.pollingStatesMutex.Lock() returns only when nobody holds the mutex
CanLock == pollingStatesMutex.writer = None /\ pollingStatesMutex.readers = {}
\* m.pollingStatesMutex.RLock() returns only when no writer holds it
CanRLock == pollingStatesMutex.writer = None

\* the lock after phase 1: "m.pollingStatesMutex.Unlock() // Release lock early!"
Phase1Unlock_deferred(mutex) == mutex

Phase1Unlock(mutex) == [mutex EXCEPT !.writer = None]

\* the loop of phase 1: states created lazily, copies of the due states collected
RECURSIVE CollectLoop(_, _, _, _, _)
CollectLoop(i, states, toPoll, t, hasSSEClients) ==
    IF i > Len(proc.stations) THEN [states |-> states, toPoll |-> toPoll]
    ELSE LET id == proc.stations[i]
             states1 == IF id \in DOMAIN states THEN states
                        ELSE MapPut(states, id, NewPollingState(id))
             state == states1[id]
             effectiveInterval ==
                 getEffectivePollingInterval(state.CurrentInterval, hasSSEClients)
         IN  CollectLoop(i + 1, states1,
                         IF Sub(t, state.LastPolled) >= effectiveInterval
                         THEN Append(toPoll, state) ELSE toPoll,
                         t, hasSSEClients)

EffectiveStartTime_default(state, defaultStartTime) == defaultStartTime

\* the start of the fetch window of one due station
EffectiveStartTime(state, defaultStartTime) ==
    IF After(state.LastObservation, defaultStartTime)
    THEN state.LastObservation + 1
    ELSE defaultStartTime

\* timeWindowGroups: effective start -> indices into toPoll, in index order
RECURSIVE GroupLoop(_, _, _, _)
GroupLoop(toPoll, i, defaultStartTime, groups) ==
    IF i > Len(toPoll) THEN groups
    ELSE LET k == EffectiveStartTime(toPoll[i], defaultStartTime)
         IN  GroupLoop(toPoll, i + 1, defaultStartTime,
                       IF k \in DOMAIN groups
                       THEN [groups EXCEPT ![k] = Append(@, i)]
                       ELSE MapPut(groups, k, <<i>>))

BatchesOf_whole(indices) == IF Len(indices) = 0 THEN <<>> ELSE <<indices>>

\* the batches of one group: indices[start:end], at most maxBatchSize each
RECURSIVE BatchesOf(_)
BatchesOf(indices) ==
    IF Len(indices) = 0 THEN <<>>
    ELSE IF Len(indices) <= maxBatchSize THEN <<indices>>
    ELSE <<SubSeq(indices, 1, maxBatchSize)>>
         \o BatchesOf(SubSeq(indices, maxBatchSize + 1, Len(indices)))

\* the WindObservation updateWindData stores for a station
WindObservationOf(id, obs, t) ==
    [StationID |-> id, Timestamp |-> obs.Timestamp, WindSpeed |-> obs.WindSpeed,
     WindDirection |-> obs.WindDirection, UpdatedAt |-> t]

DataMessage(id, windObs, t) ==
    [ID |-> 0, Type |-> "data", StationID |-> id, Data |-> windObs, Timestamp |-> t]

StatusMessage(state, t) ==
    [ID |-> 0, Type |-> "status", StationID |-> state.StationID,
     Data |-> [interval |-> formatInterval(state.CurrentInterval),
               success_rate |-> state.SuccessRate,
               last_polled |-> state.LastPolled],
     Timestamp |-> t]

\* misses in a row, counted in pairs: 1 after a first miss, 0 after a success or
\* after the second miss of a pair
NextMissRun(run, hadData) == IF hadData THEN 0 ELSE IF run = 1 THEN 0 ELSE 1

\* a status message for every processed station
StatusMessages_always(oldInterval, state, t) == <<StatusMessage(state, t)>>

\* the status message processBatchedPolling broadcasts for one processed station
StatusMessages(oldInterval, state, t) ==
    IF oldInterval # state.CurrentInterval THEN <<StatusMessage(state, t)>> ELSE <<>>

\* the "Process results" loop over one batch; acc carries the working list, the
\* store, the channels, and the history of the round (events, log, run)
RECURSIVE ProcessResults(_, _, _, _, _, _)
ProcessResults(batch, j, results, acc, t, cl) ==
    IF j > Len(batch) THEN acc
    ELSE LET idx == batch[j]
             state == acc.toPoll[idx]
             id == state.StationID
             observations == IF id \in DOMAIN results THEN results[id] ELSE <<>>
             oldInterval == state.CurrentInterval
             r == updatePollingState(state, observations, t)
             status == StatusMessages(oldInterval, r.state, t)
             windObs == WindObservationOf(id, r.obs, t)
             data == IF r.hadData THEN <<DataMessage(id, windObs, t)>> ELSE <<>>
         IN  ProcessResults(batch, j + 1, results,
                 [toPoll |-> [acc.toPoll EXCEPT ![idx] = r.state],
                  windData |-> IF r.hadData THEN MapPut(acc.windData, id, windObs)
                               ELSE acc.windData,
                  chans |-> BroadcastAll(acc.chans, cl, status \o data, t),
                  events |-> acc.events \o status \o data,
                  log |-> Append(acc.log,
                                 [id |-> id, kind |-> IF r.hadData THEN "data" ELSE "empty",
                                  before |-> state, after |-> r.state,
                                  run |-> acc.run[id], at |-> t]),
                  run |-> [acc.run EXCEPT ![id] = NextMissRun(@, r.hadData)]],
                 t, cl)

\* the "Mark all stations as failed" loop over one batch
RECURSIVE MarkFailed(_, _, _, _)
MarkFailed(batch, j, acc, t) ==
    IF j > Len(batch) THEN acc
    ELSE LET idx == batch[j]
             state == acc.toPoll[idx]
             after == updateFailedPollingState(state, t)
         IN  MarkFailed(batch, j + 1,
                 [acc EXCEPT !.toPoll[idx] = after,
                             !.log = Append(@, [id |-> state.StationID, kind |-> "failed",
                                                before |-> state, after |-> after,
                                                run |-> acc.run[state.StationID],
                                                at |-> t]),
                             !.run[state.StationID] = NextMissRun(@, FALSE)],
                 t)

WriteBack_all(toPoll, i, states) ==
    [id \in DOMAIN states |->
        IF \E k \in i..Len(toPoll) : toPoll[k].StationID = id
        THEN toPoll[CHOOSE k \in i..Len(toPoll) : toPoll[k].StationID = id]
        ELSE NewPollingState(id)]

\* phase 3: the copies written back by station id
RECURSIVE WriteBack(_, _, _)
WriteBack(toPoll, i, states) ==
    IF i > Len(toPoll) THEN states
    ELSE WriteBack(toPoll, i + 1,
                   IF toPoll[i].StationID \in DOMAIN states
                   THEN [states EXCEPT ![toPoll[i].StationID] = toPoll[i]]
                   ELSE states)

\* the scheduler goroutine between rounds, at the select of runPollingScheduler
Waiting == [pc |-> "select"]

\* what the upstream may answer for one station over [startTime, endTime]
UpstreamLists(startTime, endTime) ==
    {obs \in {<<Obs(endTime, 52)>>,
              <<Obs(endTime - 60, 52), Obs(endTime, 52)>>} :
        \A i \in 1..Len(obs) : obs[i].Timestamp >= startTime}

\* the station ids of a batch
BatchIDs(toPoll, batch) == {toPoll[batch[j]].StationID : j \in 1..Len(batch)}

\* fetchWindDataBatch returns an error, or readings for some of the stations asked
Responses(toPoll, inflight, endTime) ==
    UNION {[ids -> UpstreamLists(inflight.start, endTime)] :
              ids \in SUBSET BatchIDs(toPoll, inflight.batch)}

\* runPollingScheduler: the ticker fires
Tick(g, maxTicks) ==
    /\ sched[g].pc = "select"
    /\ ticks < maxTicks
    /\ ticks' = ticks + 1
    /\ \E d \in TickSteps : now' = now + d
    /\ sched' = [sched EXCEPT ![g] = [pc |-> "begin"]]
    /\ UNCHANGED otherVars
    /\ UNCHANGED <<pollingStates, windData, pollingStatesMutex, reader, clients, lastCall,
                   chans, missRun, u>>

\* pollDueStations up to the Lock of phase 1
PollBegin(g) ==
    /\ sched[g].pc = "begin"
    /\ CanLock
    /\ pollingStatesMutex' = [pollingStatesMutex EXCEPT !.writer = g]
    /\ sched' = [sched EXCEPT ![g] = [pc |-> "collect", hasSSEClients |-> HasClients]]
    /\ UNCHANGED otherVars
    /\ UNCHANGED <<now, pollingStates, windData, reader, clients, lastCall, chans, ticks,
                   missRun, u>>

\* phase 1 under the lock, the Unlock, and the grouping of processBatchedPolling
Phase1Collect(g) ==
    /\ sched[g].pc = "collect"
    /\ LET c == CollectLoop(1, pollingStates, <<>>, now, sched[g].hasSSEClients)
       IN  /\ pollingStates' = c.states
           /\ pollingStatesMutex' = Phase1Unlock(pollingStatesMutex)
           /\ sched' = [sched EXCEPT ![g] =
                 IF Len(c.toPoll) = 0
                 THEN [pc |-> "select", hasSSEClients |-> sched[g].hasSSEClients,
                       due |-> c.toPoll]
                 ELSE [pc |-> "process",
                       hasSSEClients |-> sched[g].hasSSEClients,
                       due |-> c.toPoll,
                       toPoll |-> c.toPoll,
                       endTime |-> now,
                       groups |-> GroupLoop(c.toPoll, 1, now - 7200, << >>),
                       cur |-> [start |-> ZeroTime, batches |-> <<>>],
                       inflight |-> [start |-> ZeroTime, batch |-> <<>>],
                       fetches |-> <<>>,
                       events |-> <<>>,
                       log |-> <<>>]]
    /\ UNCHANGED otherVars
    /\ UNCHANGED <<now, windData, reader, clients, lastCall, chans, ticks, missRun, u>>

\* the batch the round fetches next (the next batch of the current group, or the
\* first batch of any group not yet visited), with what is left after it
NextBatches(s) ==
    IF s.cur.batches # <<>>
    THEN {[inflight |-> [start |-> s.cur.start, batch |-> Head(s.cur.batches)],
           cur |-> [s.cur EXCEPT !.batches = Tail(@)],
           groups |-> s.groups]}
    ELSE {[inflight |-> [start |-> k, batch |-> Head(BatchesOf(s.groups[k]))],
           cur |-> [start |-> k, batches |-> Tail(BatchesOf(s.groups[k]))],
           groups |-> MapDel(s.groups, k)] : k \in DOMAIN s.groups}

MoreBatches(s) == s.cur.batches # <<>> \/ DOMAIN s.groups # {}

\* where processBatchedPolling goes after a batch: on to the next one (also after
\* a failed batch: "continue"), or back to pollDueStations for phase 3
AfterBatch(s) == IF MoreBatches(s) THEN "process" ELSE "lock3"

\* m.fetchWindDataBatch(stationIDs, groupStartTime, endTime) is called
FetchCall(g) ==
    /\ sched[g].pc = "process"
    /\ \E n \in NextBatches(sched[g]) :
          sched' = [sched EXCEPT
              ![g].pc = "fetching",
              ![g].inflight = n.inflight,
              ![g].cur = n.cur,
              ![g].groups = n.groups,
              ![g].fetches = Append(@, [ids |-> [j \in 1..Len(n.inflight.batch) |->
                                                   sched[g].toPoll[n.inflight.batch[j]].StationID],
                                        startTime |-> n.inflight.start,
                                        endTime |-> sched[g].endTime])]
    /\ UNCHANGED otherVars
    /\ UNCHANGED <<now, pollingStates, windData, pollingStatesMutex, reader, clients, lastCall,
                   chans, ticks, missRun, u>>

RoundAcc(g) ==
    [toPoll |-> sched[g].toPoll, windData |-> windData, chans |-> chans,
     events |-> sched[g].events, log |-> sched[g].log, run |-> missRun]

\* the fetch returns an error: every station of the batch is marked failed
FetchFails(g) ==
    /\ sched[g].pc = "fetching"
    /\ LET acc == MarkFailed(sched[g].inflight.batch, 1, RoundAcc(g), now)
       IN  /\ sched' = [sched EXCEPT ![g].pc = AfterBatch(sched[g]),
                                     ![g].toPoll = acc.toPoll,
                                     ![g].log = acc.log]
           /\ missRun' = acc.run
    /\ UNCHANGED otherVars
    /\ UNCHANGED <<now, pollingStates, windData, pollingStatesMutex, reader, clients, lastCall,
                   chans, ticks, u>>

\* the "Process results" loop of one batch over the response results
FetchReturns(g, results) ==
    /\ LET acc == ProcessResults(sched[g].inflight.batch, 1, results, RoundAcc(g),
                                 now, clients)
       IN  /\ sched' = [sched EXCEPT ![g].pc = AfterBatch(sched[g]),
                                     ![g].toPoll = acc.toPoll,
                                     ![g].events = acc.events,
                                     ![g].log = acc.log]
           /\ windData' = acc.windData
           /\ chans' = acc.chans
           /\ missRun' = acc.run
    /\ UNCHANGED otherVars
    /\ UNCHANGED <<now, pollingStates, pollingStatesMutex, reader, clients, lastCall, ticks>>

\* the fetch returns readings: every station of the batch is processed
FetchSucceeds(g) ==
    /\ sched[g].pc = "fetching"
    /\ \E results \in Responses(sched[g].toPoll, sched[g].inflight, sched[g].endTime) :
          FetchReturns(g, results)
    /\ UNCHANGED u

\* the Lock of phase 3
Phase3Lock(g) ==
    /\ sched[g].pc = "lock3"
    /\ CanLock
    /\ pollingStatesMutex' = [pollingStatesMutex EXCEPT !.writer = g]
    /\ sched' = [sched EXCEPT ![g].pc = "writeback"]
    /\ UNCHANGED otherVars
    /\ UNCHANGED <<now, pollingStates, windData, reader, clients, lastCall, chans, ticks,
                   missRun, u>>

\* phase 3 under the lock, and the Unlock; pollDueStations returns
Phase3Write(g) ==
    /\ sched[g].pc = "writeback"
    /\ pollingStates' = WriteBack(sched[g].toPoll, 1, pollingStates)
    /\ pollingStatesMutex' = [pollingStatesMutex EXCEPT !.writer = None]
    /\ sched' = [sched EXCEPT ![g] = Waiting]
    /\ UNCHANGED otherVars
    /\ UNCHANGED <<now, windData, reader, clients, lastCall, chans, ticks, missRun, u>>

\* GetPollingState(stationID): the RLock
GetPollingStateLock(id) ==
    /\ reader.pc = "idle"
    /\ CanRLock
    /\ pollingStatesMutex' = [pollingStatesMutex EXCEPT !.readers = @ \cup {"api"}]
    /\ reader' = [pc |-> "locked", id |-> id]
    /\ UNCHANGED otherVars
    /\ UNCHANGED <<now, pollingStates, windData, sched, clients, lastCall, chans, ticks,
                   missRun, u>>

\* GetPollingState: the copy is made and the RUnlock runs
GetPollingStateReturn ==
    /\ reader.pc = "locked"
    /\ pollingStatesMutex' = [pollingStatesMutex EXCEPT !.readers = @ \ {"api"}]
    /\ reader' = [pc |-> "idle"]
    /\ UNCHANGED otherVars
    /\ UNCHANGED <<now, pollingStates, windData, sched, clients, lastCall, chans, ticks,
                   missRun, u>>

\* no round is in progress
BetweenRounds == \A g \in Goroutines : sched[g].pc \in {"select", "begin", "exited"}

\* a live-view client connects between two rounds (handleSSE registers it with
\* the hub under an id it generates, which no earlier connection had)
ClientConnects(c) ==
    /\ BetweenRounds
    /\ Len(chans) < MaxChans
    /\ \A i \in DOMAIN chans : chans[i].id # c
    /\ AddClient(c)
    /\ UNCHANGED otherVars
    /\ UNCHANGED <<now, pollingStates, windData, pollingStatesMutex, sched, reader,
                   ticks, missRun, u>>

\* a live-view client goes away between two rounds (the deferred RemoveClient of
\* handleSSE)
ClientDisconnects(c) ==
    /\ BetweenRounds
    /\ c \in DOMAIN clients
    /\ RemoveClient(c)
    /\ UNCHANGED otherVars
    /\ UNCHANGED <<now, pollingStates, windData, pollingStatesMutex, sched, reader,
                   ticks, missRun, u>>

-----------------------------------------------------------------------------
(* One call of updatePollingState or updateFailedPollingState on any state  *)
(* and any response                                                        *)

\* gaps between consecutive observations of a response, seconds
GapChoices == {0, 20, 30, 31, 59, 60, 90, 91, 600, 720, 721, 3600, 4200, 4201,
               7199, 7200, 9000}

ObsBase == StartTime - 20000

ObsInputs ==
    {<<>>, <<Obs(ObsBase, 52)>>}
    \cup {<<Obs(ObsBase, 52), Obs(ObsBase + g, 52)>> : g \in GapChoices}
    \cup {<<Obs(ObsBase, 52), Obs(ObsBase + g, 52), Obs(ObsBase + g + h, 52)>> :
              g \in GapChoices, h \in {60, 600, 7200}}

StateInputs ==
    {[NewPollingState("s1") EXCEPT !.CurrentInterval = i, !.ConsecutiveMisses = m,
                                   !.TotalPolls = 4, !.SuccessfulPolls = 2,
                                   !.SuccessRate = Rate(2, 4),
                                   !.LastPolled = StartTime - 100,
                                   !.LastObservation = lo] :
        i \in Tiers, m \in 0..MaxMisses, lo \in {ZeroTime, ObsBase - 60}}

UOff == [pc |-> "off"]

\* NewManager in a process that finds the files it is given: not running,
\* stopCh made (closed counts the close() calls on it), no context yet;
\* stations is what stationMgr.GetAllStations returns
NewManager(stations, stateFile, windDataFile) ==
    [stations |-> stations, isRunning |-> FALSE, stopCh |-> 0, ctxDone |-> FALSE, stateFile |-> stateFile,
     windDataFile |-> windDataFile, starts |-> 0, loaded |-> {}]

\* a file that does not exist, and one that holds data
NoFile == [exists |-> FALSE, data |-> << >>]
File(data) == [exists |-> TRUE, data |-> data]

\* the first process: nothing was persisted yet
NewProcess(stations) == NewManager(stations, NoFile, NoFile)

\* a manager over a registry, with the PollingStates and the readings that
\* earlier rounds left in its maps
InitFrom(stations, states, data) ==
    /\ now = StartTime
    /\ pollingStates = states
    /\ windData = data
    /\ pollingStatesMutex = [writer |-> None, readers |-> {}]
    /\ reader = [pc |-> "idle"]
    /\ clients = << >>
    /\ lastCall = << >>
    /\ chans = << >>
    /\ ticks = 0
    /\ missRun = [s \in StationIDs \cup {stations[i] : i \in 1..Len(stations)} |-> 0]
    /\ proc = NewProcess(stations)
    /\ conns = << >>
    /\ published = << >>

InitWith(stations) == InitFrom(stations, << >>, << >>)

InitQuiet == InitWith(AllStations)

InitUpdate ==
    /\ InitQuiet
    /\ sched = [g \in Goroutines |-> [pc |-> "exited"]]
    /\ u \in {[pc |-> "call", fn |-> f, before |-> s, obs |-> o] :
                 f \in {"update"}, s \in StateInputs, o \in ObsInputs}
             \cup {[pc |-> "call", fn |-> "failed", before |-> s, obs |-> <<>>] :
                      s \in StateInputs}

CallUpdatePollingState ==
    /\ u.pc = "call" /\ u.fn = "update"
    /\ LET r == updatePollingState(u.before, u.obs, now)
       IN  u' = [pc |-> "done", fn |-> "update", before |-> u.before, obs |-> u.obs,
                 after |-> r.state, ret |-> r.obs, hadData |-> r.hadData]
    /\ UNCHANGED otherVars
    /\ UNCHANGED <<now, pollingStates, windData, pollingStatesMutex, sched, reader,
                   clients, lastCall, chans, ticks, missRun>>

CallUpdateFailedPollingState ==
    /\ u.pc = "call" /\ u.fn = "failed"
    /\ u' = [pc |-> "done", fn |-> "failed", before |-> u.before, obs |-> u.obs,
             after |-> updateFailedPollingState(u.before, now),
             ret |-> NoObservation, hadData |-> FALSE]
    /\ UNCHANGED otherVars
    /\ UNCHANGED <<now, pollingStates, windData, pollingStatesMutex, sched, reader,
                   clients, lastCall, chans, ticks, missRun>>

NextUpdate == CallUpdatePollingState \/ CallUpdateFailedPollingState

SpecUpdate == InitUpdate /\ [][NextUpdate]_vars

-----------------------------------------------------------------------------
(* The scheduler with the hub and a reader: the state after NewManager and  *)
(* Start with no persisted files, the initial poll about to run            *)

Init ==
    /\ InitQuiet
    /\ sched = [g \in Goroutines |-> IF g = "g1" THEN [pc |-> "begin"]
                                                 ELSE [pc |-> "exited"]]
    /\ u = UOff

\* one round of pollDueStations, step by step
Round(g) ==
    \/ PollBegin(g)
    \/ Phase1Collect(g)
    \/ FetchCall(g)
    \/ FetchFails(g)
    \/ FetchSucceeds(g)
    \/ Phase3Lock(g)
    \/ Phase3Write(g)

Next ==
    \/ \E g \in Goroutines : Tick(g, MaxTicks) \/ Round(g)
    \/ \E c \in ClientIDs : ClientConnects(c) \/ ClientDisconnects(c)

Spec == Init /\ [][Next]_vars

\* the same with a caller of GetPollingState beside the scheduler
NextLock ==
    \/ \E g \in Goroutines : Tick(g, MaxLockTicks) \/ Round(g)
    \/ \E id \in StationIDs : GetPollingStateLock(id)
    \/ GetPollingStateReturn
    \/ \E c \in ClientIDs : ClientConnects(c) \/ ClientDisconnects(c)

SpecLock == Init /\ [][NextLock]_vars

-----------------------------------------------------------------------------
(* The hub on its own: handleSSE connections of two clients and a publisher *)
(* that calls Broadcast; no connect callback is set                         *)

MaxPublish == 4
MaxHubTicks == 1

HubClientIDs == {"c1", "c2"}

\* the n-th message a publisher hands to Broadcast: the odd ones leave id and
\* timestamp for Broadcast to fill, the even ones bring their own
HubMessages(n) ==
    IF n % 2 = 1
    THEN {[ID |-> 0, Type |-> "data", StationID |-> "s1", Data |-> [seq |-> n],
           Timestamp |-> ZeroTime]}
    ELSE {[ID |-> 7, Type |-> "status", StationID |-> "s1", Data |-> [seq |-> n],
           Timestamp |-> StartTime - 1]}

\* the initial connection message of handleSSE, written to the response
ConnectedMessage(c, t) ==
    [ID |-> t, Type |-> "connected", StationID |-> "", Data |-> [client_id |-> c],
     Timestamp |-> ZeroTime]

\* handleSSE up to its event loop for the client id c of the request:
\* AddClient, the deferred RemoveClient armed, the "connected" message written
\* and NotifyClientConnected called, which starts the connect callback when
\* one is set; since is the number of messages published before
HandleSSEAs(c, callbackSet) ==
    /\ AddClient(c)
    /\ conns' = Append(conns, [pc |-> "stream", id |-> c,
                               stream |-> <<ConnectedMessage(c, now)>>,
                               since |-> Len(published),
                               snapshot |-> IF callbackSet THEN "pending"
                                            ELSE "none"])
    /\ UNCHANGED <<now, pollingStates, windData, pollingStatesMutex, sched, reader,
                   ticks, missRun, u, proc, published>>

\* handleSSE up to its event loop, for a client id the handler generates (no
\* earlier connection had it): AddClient, the deferred RemoveClient armed, the
\* "connected" message written and NotifyClientConnected called, which starts
\* the connect callback when one is set; since is the number of messages
\* published before the connection registered
HandleSSE(c, callbackSet) ==
    /\ \A i \in DOMAIN chans : chans[i].id # c
    /\ HandleSSEAs(c, callbackSet)

\* case msg, ok := <-messageChan with ok: the message is written to the response
HandlerReceives(i) ==
    /\ conns[i].pc = "stream"
    /\ chans[i].buf # <<>>
    /\ conns' = [conns EXCEPT ![i].stream = Append(@, Head(chans[i].buf))]
    /\ chans' = [chans EXCEPT ![i].buf = Tail(@)]
    /\ UNCHANGED <<now, pollingStates, windData, pollingStatesMutex, sched, reader,
                   clients, lastCall, ticks, missRun, u, proc, published>>

\* case <-r.Context().Done(): the client went away; the deferred RemoveClient runs
HandlerContextDone(i) ==
    /\ conns[i].pc = "stream"
    /\ RemoveClient(conns[i].id)
    /\ conns' = [conns EXCEPT ![i].pc = "done"]
    /\ UNCHANGED <<now, pollingStates, windData, pollingStatesMutex, sched, reader,
                   ticks, missRun, u, proc, published>>

\* a publisher calls Broadcast(message)
HubPublish(message) ==
    /\ Len(published) < MaxPublish
    /\ BroadcastReturns(chans, clients)
    /\ chans' = Broadcast(chans, clients, message, now)
    /\ published' = Append(published, Stamp(message, now))
    /\ UNCHANGED <<now, pollingStates, windData, pollingStatesMutex, sched, reader,
                   clients, lastCall, ticks, missRun, u, proc, conns>>

\* a second passes
HubTick ==
    /\ ticks < MaxHubTicks
    /\ ticks' = ticks + 1
    /\ now' = now + 1
    /\ UNCHANGED <<pollingStates, windData, pollingStatesMutex, sched, reader,
                   clients, lastCall, chans, missRun, u, proc, conns, published>>

InitHub ==
    /\ InitQuiet
    /\ sched = [g \in Goroutines |-> [pc |-> "exited"]]
    /\ u = UOff

NextHub ==
    \/ \E c \in HubClientIDs : HandleSSE(c, FALSE)
    \/ \E i \in DOMAIN conns :
          HandlerReceives(i) \/ HandlerContextDone(i)
    \/ \E message \in HubMessages(Len(published) + 1) : HubPublish(message)
    \/ HubTick

SpecHub == InitHub /\ [][NextHub]_vars

\* the messages of the stream of connection i that came through its channel
StreamEvents(i) == SelectSeq(conns[i].stream, LAMBDA m : m.Type # "connected")

\* what was published since connection i registered
PublishedSince(i) == SubSeq(published, conns[i].since + 1, Len(published))

\* C4: Broadcast appends the event to every registered queue that has room and
\* leaves a full queue as it is; a registered subscriber for whom no message
\* was skipped has received or has queued every event published since
\* it registered, whatever the queues of the other subscribers did.
C4_SlowConsumerIsolation ==
    /\ [][published' # published =>
            \A i \in DOMAIN chans :
                chans'[i].buf =
                    IF i \in Registered(clients) /\ Len(chans[i].buf) < MaxQueue
                    THEN Append(chans[i].buf, published'[Len(published')])
                    ELSE chans[i].buf]_vars
    /\ [](\A i \in Registered(clients) :
             ~chans[i].skipped => StreamEvents(i) \o chans[i].buf = PublishedSince(i))

\* N = MaxPublish events were published; one subscriber never drained and its
\* queue saturated below N, the other kept draining and received all N
C4_Witness ==
    \E i, j \in Registered(clients) :
        /\ Len(published) = MaxPublish
        /\ conns[i].since = 0 /\ conns[j].since = 0
        /\ chans[i].skipped
        /\ StreamEvents(i) = <<>> /\ Len(chans[i].buf) < Len(published)
        /\ ~chans[j].skipped
        /\ StreamEvents(j) = published

-----------------------------------------------------------------------------
(* Claims about one processed response *)

USuccess == u.pc = "done" /\ u.fn = "update" /\ Len(u.obs) > 0

\* the gaps of a response that count: longer than 30 s and shorter than 2 h
ValidGaps(obs) ==
    {g \in {obs[i + 1].Timestamp - obs[i].Timestamp : i \in 1..(Len(obs) - 1)} :
        g > 30 /\ g < 7200}

SmallestOf(S) == CHOOSE x \in S : \A y \in S : x <= y

TierFor(g) ==
    IF g <= 90 THEN 60 ELSE IF g <= 720 THEN 600 ELSE IF g <= 4200 THEN 3600 ELSE 86400

\* C9: a success with at least 2 observations whose minimum valid gap g is
\* shorter than the current interval sets the tier to the canonical tier for g
\* (g <= 90s Fast, <= 12m Medium, <= 70m Slow, else UltraSlow) whatever the miss
\* count was; a success with fewer than 2 observations or no valid gap leaves
\* the tier unchanged.
C9_PromotionRule ==
    USuccess =>
        LET gaps == ValidGaps(u.obs)
        IN  /\ (Len(u.obs) >= 2 /\ gaps # {} /\ SmallestOf(gaps) < u.before.CurrentInterval)
                => u.after.CurrentInterval = TierFor(SmallestOf(gaps))
            /\ (Len(u.obs) < 2 \/ gaps = {})
                => u.after.CurrentInterval = u.before.CurrentInterval

\* a promotion from Slow to Medium by a gap of exactly 12 minutes, with misses pending
C9_Witness ==
    /\ USuccess
    /\ u.before.CurrentInterval = IntervalSlow
    /\ u.before.ConsecutiveMisses = 1
    /\ ValidGaps(u.obs) = {720}
    /\ u.after.CurrentInterval = IntervalMedium

TenMinutesApart(obs) ==
    /\ Len(obs) >= 2
    /\ \A i \in 1..(Len(obs) - 1) : obs[i + 1].Timestamp - obs[i].Timestamp = 600

\* C10 as stated: an entity at Fast whose response has observations 10 minutes
\* apart is at Medium after the response is processed.
C10_FastBecomesMedium ==
    (USuccess /\ u.before.CurrentInterval = IntervalFast /\ TenMinutesApart(u.obs))
        => u.after.CurrentInterval = IntervalMedium

\* C10 amended: observations 10 minutes apart leave an entity at Fast or Medium
\* at its tier and move an entity at Slow or UltraSlow to Medium, whatever the
\* miss count before; the miss count is 0 afterwards.
C10_TenMinuteGap ==
    (USuccess /\ TenMinutesApart(u.obs)) =>
        /\ u.before.CurrentInterval \in {IntervalFast, IntervalMedium}
              => u.after.CurrentInterval = u.before.CurrentInterval
        /\ u.before.CurrentInterval \in {IntervalSlow, IntervalUltraSlow}
              => u.after.CurrentInterval = IntervalMedium
        /\ u.after.ConsecutiveMisses = 0

C10_Witness ==
    /\ USuccess
    /\ TenMinutesApart(u.obs)
    /\ u.before.CurrentInterval = IntervalFast
    /\ u.before.ConsecutiveMisses = 1
    /\ u.after.CurrentInterval = IntervalFast

-----------------------------------------------------------------------------
(* The life of the manager: Start, Stop, the persisted files, the process   *)
(* that ends and the next process that loads what the last one saved        *)

MaxStarts == 2
MaxLifeTicks == 1

\* json.MarshalIndent of one PollingState, by its json tags; the file holds the
\* interval in nanoseconds and the times as RFC 3339 text, the model holds
\* both in whole seconds, which is all the program produces
PollingStateJSON(state) ==
    [station_id |-> state.StationID,
     current_interval |-> state.CurrentInterval,
     consecutive_misses |-> state.ConsecutiveMisses,
     last_polled |-> state.LastPolled,
     last_observation |-> state.LastObservation,
     success_rate |-> state.SuccessRate,
     total_polls |-> state.TotalPolls,
     successful_polls |-> state.SuccessfulPolls]

\* json.Unmarshal of one entry of the state file
PollingStateOfJSON(j) ==
    [StationID |-> j.station_id,
     CurrentInterval |-> j.current_interval,
     ConsecutiveMisses |-> j.consecutive_misses,
     LastPolled |-> j.last_polled,
     LastObservation |-> j.last_observation,
     SuccessRate |-> j.success_rate,
     TotalPolls |-> j.total_polls,
     SuccessfulPolls |-> j.successful_polls]

WindObservationJSON(w) ==
    [station_id |-> w.StationID, timestamp |-> w.Timestamp,
     wind_speed |-> w.WindSpeed, wind_direction |-> w.WindDirection,
     updated_at |-> w.UpdatedAt]

WindObservationOfJSON(j) ==
    [StationID |-> j.station_id, Timestamp |-> j.timestamp,
     WindSpeed |-> j.wind_speed, WindDirection |-> j.wind_direction,
     UpdatedAt |-> j.updated_at]

\* savePollingStates and saveWindData: the whole map, keyed by station id
savePollingStates(states) ==
    File([id \in DOMAIN states |-> PollingStateJSON(states[id])])
saveWindData(data) == File([id \in DOMAIN data |-> WindObservationJSON(data[id])])

\* loadPollingStates and loadWindData: no file leaves the map alone; Unmarshal
\* into the map sets the keys of the file and keeps the others
loadPollingStates(states, file) ==
    IF ~file.exists THEN states
    ELSE [id \in DOMAIN states \cup DOMAIN file.data |->
             IF id \in DOMAIN file.data THEN PollingStateOfJSON(file.data[id])
             ELSE states[id]]

loadWindData(data, file) ==
    IF ~file.exists THEN data
    ELSE [id \in DOMAIN data \cup DOMAIN file.data |->
             IF id \in DOMAIN file.data THEN WindObservationOfJSON(file.data[id])
             ELSE data[id]]

\* Start: refuses when running; loads both files (the state file under the
\* write lock), starts a scheduler goroutine, sets isRunning
StartOk ==
    /\ proc.starts < MaxStarts
    /\ proc.stateFile.exists => CanLock
    /\ \E g \in DOMAIN sched : sched[g].pc = "exited"
    /\ LET g == CHOOSE h \in DOMAIN sched : sched[h].pc = "exited"
       IN  sched' = [sched EXCEPT ![g] = [pc |-> "begin"]]
    /\ pollingStates' = loadPollingStates(pollingStates, proc.stateFile)
    /\ windData' = loadWindData(windData, proc.windDataFile)
    /\ proc' = [proc EXCEPT !.isRunning = TRUE, !.ctxDone = FALSE,
                            !.starts = @ + 1,
                            !.loaded = DOMAIN proc.stateFile.data]
    /\ UNCHANGED <<now, pollingStatesMutex, reader, clients, lastCall, chans, ticks,
                   missRun, conns, published>>

Start == ~proc.isRunning /\ StartOk /\ UNCHANGED u

\* the process is gone: every goroutine with it, and the memory of the manager;
\* the files stay for the NewManager of the next process
ProcessEnds(stateFile, windDataFile) ==
    /\ proc' = [NewManager(proc.stations, stateFile, windDataFile)
                    EXCEPT !.starts = proc.starts]
    /\ sched' = [g \in DOMAIN sched |-> [pc |-> "exited"]]
    /\ pollingStates' = << >>
    /\ windData' = << >>
    /\ pollingStatesMutex' = Unlocked

\* Stop: a no-op when not running; cancels the context, saves both files (the
\* state file under the read lock), closes stopCh, clears isRunning.  stopCh is
\* made once, in NewManager: the Stop after a second Start of the same manager
\* closes a closed channel, and the panic ends the process after the save
StopOk ==
    /\ pollingStatesMutex.writer = None
    /\ LET stateFile == savePollingStates(pollingStates)
           windDataFile == saveWindData(windData)
       IN  IF proc.stopCh > 0
           THEN ProcessEnds(stateFile, windDataFile)
           ELSE /\ proc' = [proc EXCEPT !.isRunning = FALSE, !.ctxDone = TRUE,
                                        !.stopCh = @ + 1,
                                        !.stateFile = stateFile,
                                        !.windDataFile = windDataFile]
                /\ UNCHANGED <<sched, pollingStates, windData, pollingStatesMutex>>
    /\ UNCHANGED <<now, reader, clients, lastCall, chans, ticks, missRun, conns, published>>

Stop == proc.isRunning /\ StopOk /\ UNCHANGED u

\* main returns after Stop
ProcessExits ==
    /\ ~proc.isRunning
    /\ proc.starts > 0
    /\ pollingStates # << >>
    /\ ProcessEnds(proc.stateFile, proc.windDataFile)
    /\ UNCHANGED <<now, reader, clients, lastCall, chans, ticks, missRun, u, conns, published>>

\* runPollingScheduler leaves its loop: the context is done or stopCh is closed
SchedulerExits(g) ==
    /\ sched[g].pc = "select"
    /\ proc.ctxDone \/ proc.stopCh > 0
    /\ sched' = [sched EXCEPT ![g] = [pc |-> "exited"]]
    /\ UNCHANGED <<now, pollingStates, windData, pollingStatesMutex, reader, clients, lastCall,
                   chans, ticks, missRun, u, proc, conns, published>>

InitLife ==
    /\ InitQuiet
    /\ sched = [g \in Goroutines |-> [pc |-> "exited"]]
    /\ u = UOff

NextLife ==
    \/ Start
    \/ Stop
    \/ ProcessExits
    \/ \E g \in Goroutines : SchedulerExits(g) \/ Tick(g, MaxLifeTicks) \/ Round(g)

SpecLife == InitLife /\ [][NextLife]_vars

-----------------------------------------------------------------------------
(* The live endpoint: the connections of one subscriber beside the          *)
(* scheduler, with the connect callback that sends the initial snapshot     *)

MaxConnTicks == 1

\* the client ids handleSSE generates for the subscriber's connections, in order
ConnClientIDs == <<"a1", "a2">>

\* SendToClient: a try-send to the channel of one client, nothing for an id that
\* is not registered
SendToClient(chs, cl, c, message, t) ==
    IF c \in DOMAIN cl
    THEN [chs EXCEPT ![cl[c]] = TrySend(@, Stamp(message, t))]
    ELSE chs

RECURSIVE SendAllToClient(_, _, _, _, _)
SendAllToClient(chs, cl, c, messages, t) ==
    IF messages = <<>> THEN chs
    ELSE SendAllToClient(SendToClient(chs, cl, c, Head(messages), t), cl, c,
                         Tail(messages), t)

\* the snapshot of the connect callback: for every station one data message when
\* the store has a reading and one status message when a PollingState exists
RECURSIVE SnapshotMessages(_, _, _, _)
SnapshotMessages(k, data, states, t) ==
    IF k > Len(proc.stations) THEN <<>>
    ELSE LET id == proc.stations[k]
         IN  (IF id \in DOMAIN data THEN <<DataMessage(id, data[id], t)>> ELSE <<>>)
             \o (IF id \in DOMAIN states THEN <<StatusMessage(states[id], t)>>
                 ELSE <<>>)
             \o SnapshotMessages(k + 1, data, states, t)

\* the connect callback, on its own goroutine: reads both stores (the states
\* through GetPollingState, under the read lock) and sends the snapshot to the
\* client that connected
ConnectCallback(i) ==
    /\ conns[i].snapshot = "pending"
    /\ pollingStatesMutex.writer = None
    /\ chans' = SendAllToClient(chans, clients, conns[i].id,
                                SnapshotMessages(1, windData, pollingStates, now), now)
    /\ conns' = [conns EXCEPT ![i].snapshot = "done"]
    /\ UNCHANGED <<now, pollingStates, windData, pollingStatesMutex, sched, reader,
                   clients, lastCall, ticks, missRun, u, proc, published>>

\* the subscriber connects, or connects again after its last connection ended
SubscriberConnects ==
    /\ Len(conns) < Len(ConnClientIDs)
    /\ \A i \in DOMAIN conns : conns[i].pc = "done"
    /\ HandleSSE(ConnClientIDs[Len(conns) + 1], TRUE)

NextConn ==
    \/ SubscriberConnects
    \/ \E i \in DOMAIN conns :
          ConnectCallback(i) \/ HandlerReceives(i) \/ HandlerContextDone(i)
    \/ \E g \in Goroutines : Tick(g, MaxConnTicks) \/ Round(g)

\* a registry of one station; the initial poll is about to run
InitConn ==
    /\ InitWith(SubSeq(AllStations, 1, 1))
    /\ sched = [g \in Goroutines |-> [pc |-> "begin"]]
    /\ u = UOff

SpecConn == InitConn /\ [][NextConn]_vars

\* everything the subscriber was sent, over all its connections in order
RECURSIVE StreamsFrom(_)
StreamsFrom(i) ==
    IF i > Len(conns) THEN <<>> ELSE StreamEvents(i) \o StreamsFrom(i + 1)

EventIndexes(type, id) ==
    LET all == StreamsFrom(1)
    IN  {k \in 1..Len(all) : all[k].Type = type /\ all[k].StationID = id}

\* the subscriber's view of a station: the payload of the last event of the type
LatestEvent(type, id) ==
    LET all == StreamsFrom(1)
        last == CHOOSE k \in EventIndexes(type, id) :
                    \A j \in EventIndexes(type, id) : j <= k
    IN  all[last].Data

\* connection i is a reconnection that has caught up: its snapshot was sent,
\* its queue is drained, nothing was skipped for it, and no round is in progress
CaughtUp(i) ==
    /\ i > 1
    /\ StreamEvents(i - 1) # <<>>
    /\ conns[i].pc = "stream"
    /\ conns[i].snapshot = "done"
    /\ chans[i].buf = <<>>
    /\ ~chans[i].skipped
    /\ BetweenRounds

\* C3: when a subscriber that saw events, disconnected and reconnected has
\* caught up, its view of every station equals the stores: the latest reading
\* it was sent is the stored reading and the latest tier it was sent is the
\* stored tier.
C3_ReconnectWithoutGap ==
    \A i \in DOMAIN conns :
        CaughtUp(i) =>
            \A id \in StationIDs :
                /\ id \in DOMAIN windData =>
                      /\ EventIndexes("data", id) # {}
                      /\ LatestEvent("data", id) = windData[id]
                /\ id \in DOMAIN pollingStates =>
                      /\ EventIndexes("status", id) # {}
                      /\ LatestEvent("status", id).interval
                             = formatInterval(pollingStates[id].CurrentInterval)

-----------------------------------------------------------------------------
(* One round over a registry large enough to fill a batch, with the         *)
(* upstream down: every fetch of the round returns an error                 *)

MaxDue == 22

\* station ids are FMISID strings
BatchStation(i) == ToString(100000 + i)
BatchStations(n) == [i \in 1..n |-> BatchStation(i)]

\* what earlier rounds left for station i: nothing yet ("new"); polled a day
\* ago with a last observation 100 s ago ("recent"), 50 s ago ("recent2") or
\* more than two hours ago ("stale"); or polled just now ("fresh")
BatchModes == {"block", "stripe"}
BatchClass(mode, k, i) ==
    IF mode = "block" THEN (IF i <= k THEN "recent" ELSE "new")
    ELSE IF i % 3 = 0 THEN "recent2"
    ELSE IF i % 3 = 1 THEN "recent"
    ELSE IF i <= k THEN "fresh" ELSE "stale"

BatchState(id, class) ==
    [NewPollingState(id) EXCEPT
        !.LastPolled = IF class = "fresh" THEN StartTime ELSE StartTime - 86400,
        !.LastObservation = IF class = "recent2" THEN StartTime - 50
                            ELSE IF class = "stale" THEN StartTime - 9000
                            ELSE StartTime - 100,
        !.TotalPolls = 1, !.SuccessfulPolls = 1, !.SuccessRate = Rate(1, 1)]

BatchStates(n, mode, k) ==
    LET polled == {i \in 1..n : BatchClass(mode, k, i) # "new"}
    IN  [id \in {BatchStation(i) : i \in polled} |->
            LET i == CHOOSE j \in polled : BatchStation(j) = id
            IN  BatchState(id, BatchClass(mode, k, i))]

InitBatch ==
    /\ \E n \in 0..MaxDue : \E k \in 0..n : \E mode \in BatchModes :
          InitFrom(BatchStations(n), BatchStates(n, mode, k), << >>)
    /\ sched = [g \in Goroutines |-> [pc |-> "begin"]]
    /\ u = UOff

NextBatch ==
    \E g \in Goroutines :
        \/ PollBegin(g)
        \/ Phase1Collect(g)
        \/ FetchCall(g)
        \/ FetchFails(g)
        \/ Phase3Lock(g)
        \/ Phase3Write(g)

SpecBatch == InitBatch /\ [][NextBatch]_vars

-----------------------------------------------------------------------------
(* One round over one station, with an upstream that answers with any short *)
(* series of readings inside the window; the response is kept in u          *)

MaxSeries == 2

\* what earlier rounds left for the station: any tier, no miss or one, a last
\* observation 90 s or two and a half hours before the round
ReplyStates ==
    {[NewPollingState(AllStations[1]) EXCEPT
         !.CurrentInterval = tier, !.ConsecutiveMisses = misses,
         !.LastPolled = StartTime - 86400, !.LastObservation = StartTime - back,
         !.TotalPolls = 1 + misses, !.SuccessfulPolls = 1,
         !.SuccessRate = Rate(1, 1 + misses)] :
        tier \in Tiers, misses \in {0, 1}, back \in {90, 9000}}

\* the series of valid readings the upstream may hold for one station over
\* [startTime, endTime]: up to MaxSeries readings, oldest first
UpstreamSeries(startTime, endTime) ==
    LET times == {t \in {endTime - 60, endTime - 30, endTime} : t >= startTime}
        series == {s \in UNION {[1..n -> times] : n \in 0..MaxSeries} :
                      \A i \in 1..(Len(s) - 1) : s[i] < s[i + 1]}
    IN  {[i \in 1..Len(s) |-> Obs(s[i], 52)] : s \in series}

\* fetchWindDataBatch returns a map with a series for some of the stations asked
Replies(toPoll, inflight, endTime) ==
    UNION {[ids -> UpstreamSeries(inflight.start, endTime)] :
              ids \in SUBSET BatchIDs(toPoll, inflight.batch)}

\* the fetch returns a map: every station of the batch is processed
FetchAnswers(g) ==
    /\ sched[g].pc = "fetching"
    /\ \E results \in Replies(sched[g].toPoll, sched[g].inflight, sched[g].endTime) :
          /\ FetchReturns(g, results)
          /\ u' = [pc |-> "answered", results |-> results]

InitReply ==
    /\ \E state \in ReplyStates :
          InitFrom(SubSeq(AllStations, 1, 1),
                   [id \in {state.StationID} |-> state], << >>)
    /\ sched = [g \in Goroutines |-> [pc |-> "begin"]]
    /\ u = UOff

NextReply ==
    \/ \E c \in ClientIDs : ClientConnects(c)
    \/ \E g \in Goroutines :
          \/ PollBegin(g)
          \/ Phase1Collect(g)
          \/ FetchCall(g)
          \/ FetchAnswers(g)
          \/ Phase3Lock(g)
          \/ Phase3Write(g)

SpecReply == InitReply /\ [][NextReply]_vars

-----------------------------------------------------------------------------
(* Claims about the polling round *)

\* the round of g has a working list
InRound(g) == sched[g].pc \in {"process", "fetching", "lock3", "writeback"}

\* every batch of the round of g has been processed
RoundProcessed(g) == sched[g].pc \in {"lock3", "writeback"}

RoundLog(g) == IF InRound(g) THEN sched[g].log ELSE <<>>

LogRecords(g) == {RoundLog(g)[i] : i \in 1..Len(RoundLog(g))}

\* C1: an upstream fetch runs with the PollState lock not held by the round: the
\* round holds it only in phase 1 (the copy) and phase 3 (the write-back), and
\* while a fetch is in flight a GetPollingState caller can take the read lock.
C1_NoLockDuringFetch ==
    \A g \in Goroutines :
        /\ sched[g].pc \in {"process", "fetching", "lock3"}
              => pollingStatesMutex.writer # g
        /\ pollingStatesMutex.writer = g => sched[g].pc \in {"collect", "writeback"}
        /\ sched[g].pc = "fetching" => pollingStatesMutex.writer = None

\* a GetPollingState caller holds the read lock while a fetch is in flight
C1_Witness ==
    \E g \in Goroutines : sched[g].pc = "fetching" /\ reader.pc = "locked"

SlowerTier(tier) ==
    IF tier = 60 THEN 600 ELSE IF tier = 600 THEN 3600 ELSE 86400

\* C2: the second of two consecutive misses of an entity (failed call or empty
\* response, in any mix) demotes its tier by one step (UltraSlow stays) and sets
\* the miss count to 0; a success with data sets the miss count to 0.
C2_TwoMissesDemote ==
    \A g \in Goroutines : \A r \in LogRecords(g) :
        /\ (r.kind \in {"empty", "failed"} /\ r.run = 1)
              => /\ r.after.CurrentInterval = SlowerTier(r.before.CurrentInterval)
                 /\ r.after.ConsecutiveMisses = 0
        /\ r.kind = "data" => r.after.ConsecutiveMisses = 0

EventsOf(g, type, id) ==
    {i \in 1..Len(sched[g].events) :
        sched[g].events[i].Type = type /\ sched[g].events[i].StationID = id}

\* C6: in a round, one status event for every entity whose tier changed in the
\* round and none for the others; one data event for every entity that received
\* at least one observation and none for the others.
C6_OneEventPerChange ==
    \A g \in Goroutines :
        RoundProcessed(g) =>
            /\ \A i \in 1..Len(sched[g].due) :
                  LET id == sched[g].due[i].StationID
                      changed == sched[g].toPoll[i].CurrentInterval
                                     # sched[g].due[i].CurrentInterval
                      gotData == \E r \in LogRecords(g) : r.id = id /\ r.kind = "data"
                  IN  /\ Cardinality(EventsOf(g, "status", id)) = IF changed THEN 1 ELSE 0
                      /\ Cardinality(EventsOf(g, "data", id)) = IF gotData THEN 1 ELSE 0
            /\ \A i \in 1..Len(sched[g].events) :
                  \E j \in 1..Len(sched[g].due) :
                      sched[g].due[j].StationID = sched[g].events[i].StationID

\* C7: a failed batch call is one miss for every entity of the batch (miss
\* count +1, total attempts +1, lastPolled set, nothing else changed), leaves
\* the working PollState of the entities of the other batches as it was, and the
\* round goes on: when it ends every due entity was processed exactly once.
C7_FailedBatchIsOneMiss ==
    \A g \in Goroutines :
        InRound(g) =>
            /\ \A r \in LogRecords(g) :
                  r.kind = "failed" =>
                      /\ r.after.ConsecutiveMisses = r.before.ConsecutiveMisses + 1
                      /\ r.after.TotalPolls = r.before.TotalPolls + 1
                      /\ r.after.LastPolled = r.at
                      /\ r.after.SuccessfulPolls = r.before.SuccessfulPolls
                      /\ r.after.LastObservation = r.before.LastObservation
            /\ \A i \in 1..Len(sched[g].due) :
                  LET recs == {k \in 1..Len(sched[g].log) :
                                  sched[g].log[k].id = sched[g].due[i].StationID}
                  IN  /\ Cardinality(recs) <= 1
                      /\ recs = {} => sched[g].toPoll[i] = sched[g].due[i]
                      /\ \A k \in recs : /\ sched[g].log[k].before = sched[g].due[i]
                                         /\ sched[g].log[k].after = sched[g].toPoll[i]
                      /\ RoundProcessed(g) => Cardinality(recs) = 1

\* a round whose first batch failed and whose second batch was still fetched and
\* brought data
C7_Witness ==
    \E g \in Goroutines :
        /\ RoundProcessed(g)
        /\ Len(sched[g].fetches) = 2
        /\ Len(sched[g].log) = 2
        /\ sched[g].log[1].kind = "failed"
        /\ sched[g].log[2].kind = "data"

\* phase 1 of the round of g has just run: the shared PollState is what it saw
Phase1Seen(g) ==
    /\ "due" \in DOMAIN sched[g]
    /\ \/ sched[g].pc = "select"
       \/ sched[g].pc = "process" /\ sched[g].fetches = <<>>

DueIDs(g) == {sched[g].due[i].StationID : i \in 1..Len(sched[g].due)}

Elapsed(id) ==
    IF pollingStates[id].LastPolled = 0 THEN 2147483647
    ELSE now - pollingStates[id].LastPolled

AllPollStates ==
    {pollingStates[id] : id \in DOMAIN pollingStates}
        \cup UNION {{sched[g].toPoll[i] : i \in 1..Len(sched[g].toPoll)} :
                       g \in {h \in Goroutines : InRound(h)}}

\* C5: the tier of every PollState that exists (lazily created, loaded from the
\* state file at Start, promoted or demoted) is 1m, 10m, 60m or 24h.
C5_TierIsCanonical ==
    \A state \in AllPollStates : state.CurrentInterval \in {60, 600, 3600, 86400}

\* a PollState that was demoted, saved by Stop and loaded by the next Start
C5_Witness ==
    /\ proc.isRunning
    /\ \E id \in proc.loaded : /\ id \in DOMAIN pollingStates
                               /\ pollingStates[id].CurrentInterval # 60

\* the fetch calls of the round of g so far
Fetches(g) == IF InRound(g) THEN sched[g].fetches ELSE <<>>

\* the fetch calls of the round of g that ask for station id
FetchesOf(g, id) ==
    {n \in 1..Len(Fetches(g)) :
        \E j \in 1..Len(Fetches(g)[n].ids) : Fetches(g)[n].ids[j] = id}

\* the window start of a due station: one second after its last observation
\* when that is within the two hours before the round, else two hours before
WindowStart(state, endTime) ==
    IF state.LastObservation > endTime - 7200 THEN state.LastObservation + 1
    ELSE endTime - 7200

\* C11: no fetch call of a round asks for more than 20 stations, and two due
\* stations with the same window start are fetched with the same start time.
C11_BatchCapAndGrouping ==
    \A g \in Goroutines :
        /\ \A n \in 1..Len(Fetches(g)) : Len(Fetches(g)[n].ids) <= 20
        /\ InRound(g) =>
              \A i, j \in 1..Len(sched[g].due) :
                  WindowStart(sched[g].due[i], sched[g].endTime)
                      = WindowStart(sched[g].due[j], sched[g].endTime)
                  => \A a \in FetchesOf(g, sched[g].due[i].StationID) :
                        \A b \in FetchesOf(g, sched[g].due[j].StationID) :
                            Fetches(g)[a].startTime = Fetches(g)[b].startTime

\* a round with more than 20 due stations of one window start: a full batch of
\* 20 and a second batch with the same start time
C11_Witness ==
    \E g \in Goroutines :
        /\ RoundProcessed(g)
        /\ \E a, b \in 1..Len(sched[g].fetches) :
              /\ a # b
              /\ Len(sched[g].fetches[a].ids) = 20
              /\ sched[g].fetches[a].startTime = sched[g].fetches[b].startTime

\* how often the fetch call n of the round of g names station id
TimesIn(g, n, id) ==
    Cardinality({j \in 1..Len(Fetches(g)[n].ids) : Fetches(g)[n].ids[j] = id})

\* the window starts of the due stations, and the due stations of one start
WindowStarts(g) ==
    {WindowStart(sched[g].due[i], sched[g].endTime) : i \in 1..Len(sched[g].due)}
DueWithStart(g, k) ==
    {i \in 1..Len(sched[g].due) : WindowStart(sched[g].due[i], sched[g].endTime) = k}

\* the sum over the window starts in keys of ceil(group size / 20)
RECURSIVE CallsNeeded(_, _)
CallsNeeded(g, keys) ==
    IF keys = {} THEN 0
    ELSE LET k == CHOOSE x \in keys : TRUE
         IN  (Cardinality(DueWithStart(g, k)) + 19) \div 20
                 + CallsNeeded(g, keys \ {k})

\* C12: in a round every due station is named in at most one fetch call, once,
\* with the window from its window start to the end time of the round; when all
\* batches are done it is named in exactly one, and the number of fetch calls is
\* the sum over the window starts of ceil(group size / 20); a station that is
\* not due is named in none.
C12_EachDueFetchedOnce ==
    \A g \in Goroutines :
        InRound(g) =>
            /\ \A i \in 1..Len(sched[g].due) :
                  LET id == sched[g].due[i].StationID
                  IN  /\ Cardinality(FetchesOf(g, id)) <= 1
                      /\ RoundProcessed(g) => Cardinality(FetchesOf(g, id)) = 1
                      /\ \A n \in FetchesOf(g, id) :
                            /\ TimesIn(g, n, id) = 1
                            /\ Fetches(g)[n].startTime
                                   = WindowStart(sched[g].due[i], sched[g].endTime)
                            /\ Fetches(g)[n].endTime = sched[g].endTime
                            /\ Fetches(g)[n].endTime = now
            /\ RoundProcessed(g) =>
                  Len(Fetches(g)) = CallsNeeded(g, WindowStarts(g))
            /\ \A k \in 1..Len(proc.stations) :
                  LET id == proc.stations[k]
                  IN  Elapsed(id) < (IF sched[g].hasSSEClients
                                     THEN pollingStates[id].CurrentInterval ELSE 3600)
                      => FetchesOf(g, id) = {}

\* a finished round of three or more fetch calls over two window starts, beside
\* a station that was not due
C12_Witness ==
    \E g \in Goroutines :
        /\ RoundProcessed(g)
        /\ Len(sched[g].fetches) >= 3
        /\ Cardinality(WindowStarts(g)) >= 2
        /\ \E k \in 1..Len(proc.stations) : Elapsed(proc.stations[k]) < 3600

\* the records the step added to the log of the round of g, and the data events
\* it published for station id
NewRecords(g) ==
    {sched'[g].log[k] : k \in (Len(sched[g].log) + 1)..Len(sched'[g].log)}
NewDataEvents(g, id) ==
    {i \in (Len(sched[g].events) + 1)..Len(sched'[g].events) :
        sched'[g].events[i].Type = "data" /\ sched'[g].events[i].StationID = id}

\* a batch of the round of g is processed in this step
BatchProcessed(g) ==
    sched[g].pc = "fetching" /\ sched'[g].pc \in {"process", "lock3"}

\* C13: a station that a successful batch response does not mention is
\* processed as zero observations: one miss (miss count +1, or the demotion
\* with the count reset), no data event, its stored reading unchanged; a
\* station the same response has readings for is processed as a success.
C13_AbsentStationIsOneMiss ==
    [][\A g \in Goroutines :
          BatchProcessed(g) =>
              \A r \in NewRecords(g) :
                  /\ r.kind = "empty" =>
                        /\ r.after.TotalPolls = r.before.TotalPolls + 1
                        /\ r.after.SuccessfulPolls = r.before.SuccessfulPolls
                        /\ r.after.LastObservation = r.before.LastObservation
                        /\ \/ /\ r.after.ConsecutiveMisses
                                     = r.before.ConsecutiveMisses + 1
                              /\ r.after.CurrentInterval = r.before.CurrentInterval
                           \/ /\ r.after.ConsecutiveMisses = 0
                              /\ r.after.CurrentInterval
                                     = SlowerTier(r.before.CurrentInterval)
                        /\ NewDataEvents(g, r.id) = {}
                        /\ (r.id \in DOMAIN windData') = (r.id \in DOMAIN windData)
                        /\ r.id \in DOMAIN windData => windData'[r.id] = windData[r.id]
                  /\ r.kind = "data" =>
                        /\ r.after.SuccessfulPolls = r.before.SuccessfulPolls + 1
                        /\ r.after.ConsecutiveMisses = 0
                        /\ Cardinality(NewDataEvents(g, r.id)) = 1
                        /\ r.id \in DOMAIN windData'
                        /\ windData'[r.id].Timestamp = r.after.LastObservation
      ]_vars

\* one response that had readings for one station of the batch and none for the
\* other, whose stored reading of an earlier round is still there
C13_Witness ==
    \E g \in Goroutines :
        /\ InRound(g)
        /\ Len(sched[g].fetches) = 1
        /\ \E a, b \in LogRecords(g) :
              /\ a.kind = "empty" /\ b.kind = "data"
              /\ a.id \in DOMAIN windData
              /\ windData[a.id].UpdatedAt < a.at

\* the response of the fetch the round of g has processed holds exactly one
\* reading for the station of record r, 60 s after its last observation, and r
\* was at tier Fast and is polled 90 s after its last observation
OneReadingAfterAMinute(r) ==
    /\ u.pc = "answered"
    /\ r.id \in DOMAIN u.results
    /\ u.results[r.id] = <<Obs(r.before.LastObservation + 60, 52)>>
    /\ r.before.CurrentInterval = 60
    /\ r.at = r.before.LastObservation + 90

\* C14: a station at tier Fast with last observation T0, polled at T0 + 90 s
\* with a response of exactly one reading at T0 + 60 s, ends with miss count 0,
\* one more successful poll, last observation T0 + 60 s, tier Fast, that
\* reading in the store, and exactly one data event and no status event.
C14_OneReadingKeepsFast ==
    \A g \in Goroutines : \A r \in LogRecords(g) :
        OneReadingAfterAMinute(r) =>
            LET T0 == r.before.LastObservation
                stored == WindObservationOf(r.id, Obs(T0 + 60, 52), r.at)
            IN  /\ r.after.ConsecutiveMisses = 0
                /\ r.after.SuccessfulPolls = r.before.SuccessfulPolls + 1
                /\ r.after.TotalPolls = r.before.TotalPolls + 1
                /\ r.after.LastObservation = T0 + 60
                /\ r.after.CurrentInterval = 60
                /\ r.id \in DOMAIN windData
                /\ windData[r.id] = stored
                /\ sched[g].events = <<DataMessage(r.id, stored, r.at)>>
                /\ \A c \in DOMAIN clients :
                      LET buf == chans[clients[c]].buf
                      IN  /\ Len(buf) = 1
                          /\ buf[1].Type = "data"
                          /\ buf[1].Data = stored

\* the case with a miss counted before and a client connected
C14_Witness ==
    \E g \in Goroutines : \E r \in LogRecords(g) :
        /\ OneReadingAfterAMinute(r)
        /\ r.before.ConsecutiveMisses = 1
        /\ clients # << >>
        /\ RoundProcessed(g)

-----------------------------------------------------------------------------
(* Claims about the hub *)

\* C15: a publisher that calls Broadcast is never held up by a subscriber
\* queue: whatever the queues hold and however many subscribers are registered
\* (none included), the call can run to its end, and it sends to no closed
\* queue.
C15_BroadcastNeverWaits ==
    \A message \in HubMessages(Len(published) + 1) :
        Len(published) < MaxPublish => ENABLED HubPublish(message)

\* Broadcast has returned with two subscribers registered, the queue of one
\* full (its copy dropped) and the queue of the other empty
C15_Witness ==
    \E i, j \in Registered(clients) :
        /\ chans[i].skipped
        /\ Len(chans[i].buf) = MaxQueue
        /\ chans[j].buf = <<>>
        /\ Len(StreamEvents(j)) = Len(PublishedSince(j))

-----------------------------------------------------------------------------
(* The hub under connections that name their client id: a request with an   *)
(* X-Client-Id that is registered replaces the registration                 *)

MaxHeaderConns == 3
MaxHeaderPublish == 1

\* case msg, ok := <-messageChan with !ok: the channel is closed and drained;
\* the handler returns and its deferred RemoveClient runs
HandlerChannelClosed(i) ==
    /\ conns[i].pc = "stream"
    /\ chans[i].buf = <<>>
    /\ chans[i].closed > 0
    /\ RemoveClient(conns[i].id)
    /\ conns' = [conns EXCEPT ![i].pc = "closed"]
    /\ UNCHANGED <<now, pollingStates, windData, pollingStatesMutex, sched, reader,
                   ticks, missRun, u, proc, published>>

\* a request that brings its client id in the X-Client-Id header
HeaderConnects(c) ==
    /\ Len(conns) < MaxHeaderConns
    /\ HandleSSEAs(c, FALSE)

HeaderPublish(message) ==
    /\ Len(published) < MaxHeaderPublish
    /\ HubPublish(message)

NextHeader ==
    \/ \E c \in HubClientIDs : HeaderConnects(c)
    \/ \E i \in DOMAIN conns :
          HandlerReceives(i) \/ HandlerContextDone(i) \/ HandlerChannelClosed(i)
    \/ \E message \in HubMessages(Len(published) + 1) : HeaderPublish(message)

SpecHeader == InitHub /\ [][NextHeader]_vars

\* the step calls AddClient: it is the only call that makes a channel
AddClientCalled == Len(chans') > Len(chans)

\* the step calls Broadcast
BroadcastCalled == published' # published

\* C16: AddClient for an id that is registered closes the old queue (a receive
\* on the old handle, once the queue is drained, finds it closed), registers a
\* fresh open queue under the id and leaves the subscriber count as it was; a
\* later Broadcast goes to the new queue and not to the old one.
C16_ReplacementClosesOld ==
    /\ [][AddClientCalled =>
            LET new == Len(chans')
                c == chans'[new].id
            IN  /\ c \in DOMAIN clients' /\ clients'[c] = new
                /\ chans'[new].closed = 0 /\ chans'[new].buf = <<>>
                /\ c \in DOMAIN clients =>
                      /\ chans[clients[c]].closed = 0
                      /\ chans'[clients[c]].closed = 1
                      /\ DOMAIN clients' = DOMAIN clients
                      /\ Cardinality(DOMAIN clients') = ClientCount]_vars
    /\ [][BroadcastCalled =>
            \A i, j \in DOMAIN chans :
                (i < j /\ chans[i].id = chans[j].id) =>
                    /\ chans'[i] = chans[i]
                    /\ j \in Registered(clients) =>
                          chans'[j].buf = Append(chans[j].buf,
                                                 published'[Len(published')])]_vars
    /\ [](\A i \in DOMAIN conns :
             (conns[i].pc = "stream" /\ chans[i].closed > 0 /\ chans[i].buf = <<>>)
                 => ENABLED HandlerChannelClosed(i) /\ ~ENABLED HandlerReceives(i))

\* a registration was replaced, a Broadcast after it reached the new queue
\* only, and the handler of the old queue has found it closed
C16_Witness ==
    \E i, j \in DOMAIN conns :
        /\ i < j /\ conns[i].id = conns[j].id
        /\ conns[j].since = 0 /\ Len(published) = 1
        /\ conns[i].pc = "closed"
        /\ StreamEvents(i) = <<>> /\ chans[i].buf = <<>>
        /\ StreamEvents(j) \o chans[j].buf = published

\* the ids whose last returned call of AddClient and RemoveClient is AddClient
LastAdded == {c \in DOMAIN lastCall : lastCall[c] = "AddClient"}

\* the handler of connection i returns in this step: its deferred RemoveClient
HandlerReturns(i) == conns[i].pc = "stream" /\ conns'[i].pc # "stream"

\* C17: whatever calls of AddClient, RemoveClient and Broadcast have returned,
\* ClientCount is the number of ids whose last returned call is AddClient,
\* HasClients holds iff that number is positive, and a RemoveClient for an id
\* that is not registered changes neither the subscriber set nor a queue.
C17_CountIsLastAdded ==
    /\ [](/\ ClientCount = Cardinality(LastAdded)
          /\ DOMAIN clients = LastAdded
          /\ HasClients <=> Cardinality(LastAdded) > 0)
    /\ [][\A i \in DOMAIN conns :
            (HandlerReturns(i) /\ conns[i].id \notin DOMAIN clients)
                => clients' = clients /\ chans' = chans]_vars

\* two connections of one id, the second replacing the first, have both
\* returned (one of them on finding its queue closed), so that the RemoveClient
\* of the later return found the id not registered; another id is registered
C17_Witness ==
    /\ ClientCount = 1
    /\ \E i, j \in DOMAIN conns :
          /\ i # j /\ conns[i].id = conns[j].id
          /\ conns[i].pc = "closed" /\ conns[j].pc # "stream"
          /\ \A k \in DOMAIN clients : k # conns[i].id

\* C18: every queue is closed at most once, by the RemoveClient or by the
\* AddClient that takes it out of the subscriber set: a registered queue is
\* open, a queue that is not registered was closed once; and Broadcast does
\* not touch a closed queue.
C18_ClosedOnceAndNeverSentTo ==
    /\ [](\A i \in DOMAIN chans :
             chans[i].closed = IF i \in Registered(clients) THEN 0 ELSE 1)
    /\ [][BroadcastCalled =>
            \A i \in DOMAIN chans : chans[i].closed > 0 => chans'[i] = chans[i]]_vars

\* a queue closed by replacement and its replacement closed by RemoveClient;
\* the RemoveClient of the replaced connection has run too, and a Broadcast
\* was made with both closed
C18_Witness ==
    \E i, j \in DOMAIN conns :
        /\ i < j /\ conns[i].id = conns[j].id
        /\ conns[i].pc # "stream" /\ conns[j].pc # "stream"
        /\ chans[i].closed = 1 /\ chans[j].closed = 1
        /\ conns[i].since = 0 /\ conns[j].since = 0
        /\ StreamEvents(i) \o chans[i].buf = <<>>
        /\ StreamEvents(j) \o chans[j].buf = <<>>
        /\ Len(published) = 1

\* s is t with some elements left out
RECURSIVE IsSubSeq(_, _)
IsSubSeq(s, t) ==
    IF s = <<>> THEN TRUE
    ELSE IF t = <<>> THEN FALSE
    ELSE IF Head(s) = Head(t) THEN IsSubSeq(Tail(s), Tail(t))
    ELSE IsSubSeq(s, Tail(t))

\* C19: the hub enqueues at the tail of a subscriber's queue and the handler
\* writes the head of the queue to the connection, so the events written are
\* the first of the events enqueued, in the order in which they were enqueued;
\* written and queued events together are the events published since the
\* subscriber registered with some left out.
C19_PerSubscriberFifo ==
    /\ [][\A i \in DOMAIN conns :
            \/ /\ conns'[i].stream = conns[i].stream
               /\ chans'[i].buf = chans[i].buf
            \/ /\ chans[i].buf # <<>>
               /\ conns'[i].stream = Append(conns[i].stream, Head(chans[i].buf))
               /\ chans'[i].buf = Tail(chans[i].buf)
            \/ /\ conns'[i].stream = conns[i].stream
               /\ BroadcastCalled
               /\ chans'[i].buf = Append(chans[i].buf, published'[Len(published')])
          ]_vars
    /\ [](\A i \in DOMAIN conns :
             IsSubSeq(StreamEvents(i) \o chans[i].buf, PublishedSince(i)))

\* a connection that wrote events in publish order, with events still queued
\* behind them and a later event that was dropped at its full queue
C19_Witness ==
    \E i \in DOMAIN conns :
        /\ chans[i].skipped
        /\ Len(StreamEvents(i)) >= 2
        /\ chans[i].buf # <<>>
        /\ Len(StreamEvents(i) \o chans[i].buf) < Len(PublishedSince(i))

-----------------------------------------------------------------------------
(* handleSSE step by step from the registration to the event loop, beside a *)
(* publisher and the connect callback; the store holds a reading            *)

MaxGreetPublish == 2

\* the rest of the variables the steps of a handler leave alone
handlerFrame == <<now, pollingStates, windData, pollingStatesMutex, sched, reader,
                  ticks, missRun, u, proc, published>>

\* mgr.AddClient(clientID) with NotifyClientConnected called at once
HandlerRegisters_notifyFirst(c) ==
    /\ \A i \in DOMAIN chans : chans[i].id # c
    /\ AddClient(c)
    /\ conns' = Append(conns, [pc |-> "registered", id |-> c, stream |-> <<>>,
                               since |-> Len(published), snapshot |-> "pending"])
    /\ UNCHANGED handlerFrame

\* mgr.AddClient(clientID) for an id the handler generated, and the deferred
\* RemoveClient armed; nothing is written yet
HandlerRegisters(c) ==
    /\ \A i \in DOMAIN chans : chans[i].id # c
    /\ AddClient(c)
    /\ conns' = Append(conns, [pc |-> "registered", id |-> c, stream |-> <<>>,
                               since |-> Len(published), snapshot |-> "none"])
    /\ UNCHANGED handlerFrame

\* the response writer is no Flusher, or writing the initial message fails: the
\* handler returns and the deferred RemoveClient runs
HandlerReturnsEarly(i) ==
    /\ conns[i].pc = "registered"
    /\ RemoveClient(conns[i].id)
    /\ conns' = [conns EXCEPT ![i].pc = "done"]
    /\ UNCHANGED handlerFrame

\* writeSSEMessage(w, initialMsg) and the Flush
HandlerGreets(i) ==
    /\ conns[i].pc = "registered"
    /\ conns' = [conns EXCEPT ![i].pc = "greeted",
                              ![i].stream = Append(@, ConnectedMessage(conns[i].id, now))]
    /\ UNCHANGED handlerFrame
    /\ UNCHANGED <<clients, lastCall, chans>>

\* mgr.NotifyClientConnected(clientID): the connect callback is started; the
\* handler enters its event loop
HandlerNotifies(i) ==
    /\ conns[i].pc = "greeted"
    /\ conns' = [conns EXCEPT ![i].pc = "stream", ![i].snapshot = "pending"]
    /\ UNCHANGED handlerFrame
    /\ UNCHANGED <<clients, lastCall, chans>>

GreetPublish(message) ==
    /\ Len(published) < MaxGreetPublish
    /\ HubPublish(message)

\* one station with a PollingState and a reading
InitGreet ==
    /\ LET id == AllStations[1]
           state == [NewPollingState(id) EXCEPT !.LastPolled = StartTime - 60,
                                                !.TotalPolls = 1]
           reading == WindObservationOf(id, Obs(StartTime - 60, 52), StartTime - 60)
       IN  InitFrom(SubSeq(AllStations, 1, 1), [s \in {id} |-> state],
                    [s \in {id} |-> reading])
    /\ sched = [g \in Goroutines |-> [pc |-> "exited"]]
    /\ u = UOff

NextGreet ==
    \/ \E c \in HubClientIDs : HandlerRegisters(c)
    \/ \E i \in DOMAIN conns :
          \/ HandlerReturnsEarly(i)
          \/ HandlerGreets(i)
          \/ HandlerNotifies(i)
          \/ ConnectCallback(i)
          \/ HandlerReceives(i)
          \/ HandlerContextDone(i)
    \/ \E message \in HubMessages(Len(published) + 1) : GreetPublish(message)

SpecGreet == InitGreet /\ [][NextGreet]_vars

\* the connect callback of connection i is started in this step
SnapshotTriggered(i) == conns[i].snapshot = "none" /\ conns'[i].snapshot # "none"

\* the handler of connection i takes a message from its queue in this step
QueueRead(i) == Len(chans'[i].buf) < Len(chans[i].buf)

\* C20: on every connection the id is registered with the hub before anything
\* is written, the connected event is the first event written and no other
\* event is one, the connect callback is started only when the id was
\* registered and the connected event written, and nothing is taken from the
\* queue before that.
C20_ConnectSequence ==
    /\ [](\A i \in DOMAIN conns :
             /\ i \in DOMAIN chans /\ chans[i].id = conns[i].id
             /\ conns[i].pc = "registered" => conns[i].stream = <<>>
             /\ conns[i].stream # <<>> =>
                   /\ conns[i].stream[1].Type = "connected"
                   /\ \A k \in 2..Len(conns[i].stream) :
                         conns[i].stream[k].Type \in {"data", "status"}
             /\ conns[i].snapshot # "none" => conns[i].stream # <<>>)
    /\ [][\A i \in DOMAIN conns :
            /\ SnapshotTriggered(i) =>
                  /\ conns[i].stream = <<ConnectedMessage(conns[i].id, now)>>
                  /\ conns[i].id \in DOMAIN clients /\ clients[conns[i].id] = i
            /\ QueueRead(i) => conns[i].stream # <<>>]_vars

\* a connection whose queue held a published event before the connected event
\* was written, and which then wrote the connected event, that event and its
\* snapshot, in this order
C20_Witness ==
    \E i \in DOMAIN conns :
        /\ conns[i].snapshot = "done"
        /\ conns[i].since < Len(published)
        /\ Len(conns[i].stream) = 4
        /\ conns[i].stream[1].Type = "connected"
        /\ conns[i].stream[2] = published[conns[i].since + 1]
        /\ conns[i].stream[3].ID = conns[i].stream[1].ID
        /\ conns[i].stream[2].Data.seq = 1

\* the k-th call of Broadcast was made with no id and no timestamp set
IdFilled(k) == \A message \in HubMessages(k) : message.ID = 0

\* C21 as stated: of two events published through Broadcast with no id preset,
\* the later one has the greater id.
C21_IdsStrictlyIncrease ==
    \A j, k \in 1..Len(published) :
        (j < k /\ IdFilled(j) /\ IdFilled(k)) => published[k].ID > published[j].ID

\* C21 amended: of two events published through Broadcast with no id preset,
\* the later one has an id that is not smaller; each id is the wall-clock
\* second of the event's timestamp.
C21_IdsNeverDecrease ==
    \A j, k \in 1..Len(published) :
        (j < k /\ IdFilled(j) /\ IdFilled(k)) =>
            /\ published[k].ID >= published[j].ID
            /\ published[k].ID = published[k].Timestamp
            /\ published[j].ID = published[j].Timestamp

\* two events with no id preset published within one second, after an event
\* that brought its own id: the two ids are equal
C21_Witness ==
    \E j, k \in 1..Len(published) :
        /\ j < k /\ IdFilled(j) /\ IdFilled(k)
        /\ ~IdFilled(j + 1)
        /\ published[j].ID = published[k].ID
        /\ published[k].ID = now

\* the scheduler goroutine g is inside pollDueStations
Polling(g) == sched[g].pc \in {"collect", "process", "fetching", "lock3", "writeback"}

\* C22: a round that is in flight when the manager is stopped runs to its end,
\* phase-3 write-back included, before the scheduler task ends: the task never
\* ends from inside a round.
C22_RoundCompletesBeforeExit ==
    [][\A g \in Goroutines : Polling(g) => sched'[g].pc # "exited"]_vars

-----------------------------------------------------------------------------
(* The single-file program (main.go): pollDueStations with its deferred     *)
(* Unlock, handleMetrics, and handleSSE with the snapshot it sends itself   *)

MaxLegacyTicks == 1

\* pollDueStations: pollingStatesMutex.Lock() with the Unlock deferred
LegacyPollBegin(g) ==
    /\ sched[g].pc = "begin"
    /\ CanLock
    /\ pollingStatesMutex' = [pollingStatesMutex EXCEPT !.writer = g]
    /\ sched' = [sched EXCEPT ![g] = [pc |-> "collect", hasSSEClients |-> TRUE]]
    /\ UNCHANGED otherVars
    /\ UNCHANGED <<now, pollingStates, windData, reader, clients, lastCall, chans,
                   ticks, missRun, u>>

\* the loop that collects the due states (due at the stored tier) and the
\* grouping; with nothing due the function returns and the deferred Unlock runs
LegacyCollect(g) ==
    /\ sched[g].pc = "collect"
    /\ LET c == CollectLoop(1, pollingStates, <<>>, now, TRUE)
       IN  /\ pollingStates' = c.states
           /\ IF Len(c.toPoll) = 0
              THEN /\ pollingStatesMutex' = [pollingStatesMutex EXCEPT !.writer = None]
                   /\ sched' = [sched EXCEPT ![g] =
                                    [pc |-> "select", hasSSEClients |-> TRUE,
                                     due |-> c.toPoll]]
              ELSE /\ pollingStatesMutex' = pollingStatesMutex
                   /\ sched' = [sched EXCEPT ![g] =
                         [pc |-> "process", hasSSEClients |-> TRUE,
                          due |-> c.toPoll, toPoll |-> c.toPoll, endTime |-> now,
                          groups |-> GroupLoop(c.toPoll, 1, now - 7200, << >>),
                          cur |-> [start |-> ZeroTime, batches |-> <<>>],
                          inflight |-> [start |-> ZeroTime, batch |-> <<>>],
                          fetches |-> <<>>, events |-> <<>>, log |-> <<>>]]
    /\ UNCHANGED otherVars
    /\ UNCHANGED <<now, windData, reader, clients, lastCall, chans, ticks, missRun, u>>

\* windDataMutex is read-locked by the handleSSE connections that hold it
WindDataRLocked == \E i \in DOMAIN conns : "windData" \in conns[i].held

\* the fetch returns readings: every state of the batch is updated in place;
\* updateWindData takes the write lock of windDataMutex
LegacyFetchSucceeds(g) ==
    /\ sched[g].pc = "fetching"
    /\ \E results \in Responses(sched[g].toPoll, sched[g].inflight, sched[g].endTime) :
          /\ DOMAIN results # {} => ~WindDataRLocked
          /\ FetchReturns(g, results)
    /\ UNCHANGED u

\* pollDueStations returns: the states changed in place are what the readers
\* see once the deferred Unlock has run
LegacyReturn(g) ==
    /\ sched[g].pc = "lock3"
    /\ pollingStates' = WriteBack(sched[g].toPoll, 1, pollingStates)
    /\ pollingStatesMutex' = [pollingStatesMutex EXCEPT !.writer = None]
    /\ sched' = [sched EXCEPT ![g] = Waiting]
    /\ UNCHANGED otherVars
    /\ UNCHANGED <<now, windData, reader, clients, lastCall, chans, ticks, missRun, u>>

\* handleMetrics: pollingStatesMutex.RLock() with the RUnlock deferred
HandleMetricsLock ==
    /\ reader.pc = "idle"
    /\ CanRLock
    /\ pollingStatesMutex' = [pollingStatesMutex EXCEPT !.readers = @ \cup {"metrics"}]
    /\ reader' = [pc |-> "locked"]
    /\ UNCHANGED otherVars
    /\ UNCHANGED <<now, pollingStates, windData, sched, clients, lastCall, chans,
                   ticks, missRun, u>>

HandleMetricsReturn ==
    /\ reader.pc = "locked"
    /\ pollingStatesMutex' = [pollingStatesMutex EXCEPT !.readers = @ \ {"metrics"}]
    /\ reader' = [pc |-> "idle"]
    /\ UNCHANGED otherVars
    /\ UNCHANGED <<now, pollingStates, windData, sched, clients, lastCall, chans,
                   ticks, missRun, u>>

\* handleSSE: the channel is made and registered
LegacySSERegisters(c) ==
    /\ \A i \in DOMAIN chans : chans[i].id # c
    /\ AddClient(c)
    /\ conns' = Append(conns, [pc |-> "wind", id |-> c, stream |-> <<>>,
                               since |-> Len(published), snapshot |-> "none",
                               todo |-> <<>>, held |-> {}])
    /\ UNCHANGED handlerFrame

\* windDataMutex.RLock(): the readings to send are those of the store
LegacySSELocksWind(i) ==
    /\ conns[i].pc = "wind"
    /\ conns' = [conns EXCEPT
          ![i].pc = "sendwind", ![i].held = {"windData"},
          ![i].todo = [k \in 1..Len(SelectSeq(proc.stations,
                                             LAMBDA id : id \in DOMAIN windData)) |->
                          LET id == SelectSeq(proc.stations,
                                              LAMBDA s : s \in DOMAIN windData)[k]
                          IN  DataMessage(id, windData[id], now)]]
    /\ UNCHANGED handlerFrame
    /\ UNCHANGED <<clients, lastCall, chans>>

\* clientChan <- SSEMessage{...}: a send that waits for room in the buffer
LegacySSESends(i) ==
    /\ conns[i].pc \in {"sendwind", "sendstatus"}
    /\ conns[i].todo # <<>>
    /\ Len(chans[i].buf) < MaxQueue
    /\ chans' = [chans EXCEPT ![i].buf = Append(@, Head(conns[i].todo))]
    /\ conns' = [conns EXCEPT ![i].todo = Tail(@)]
    /\ UNCHANGED handlerFrame
    /\ UNCHANGED <<clients, lastCall>>

\* windDataMutex.RUnlock()
LegacySSEUnlocksWind(i) ==
    /\ conns[i].pc = "sendwind"
    /\ conns[i].todo = <<>>
    /\ conns' = [conns EXCEPT ![i].pc = "status", ![i].held = {}]
    /\ UNCHANGED handlerFrame
    /\ UNCHANGED <<clients, lastCall, chans>>

\* pollingStatesMutex.RLock(): the status messages to send are those of the map
LegacySSELocksStates(i) ==
    /\ conns[i].pc = "status"
    /\ CanRLock
    /\ pollingStatesMutex' = [pollingStatesMutex EXCEPT !.readers = @ \cup {conns[i].id}]
    /\ conns' = [conns EXCEPT
          ![i].pc = "sendstatus", ![i].held = {"pollingStates"},
          ![i].todo = [k \in 1..Len(SelectSeq(proc.stations,
                                             LAMBDA id : id \in DOMAIN pollingStates)) |->
                          LET id == SelectSeq(proc.stations,
                                              LAMBDA s : s \in DOMAIN pollingStates)[k]
                          IN  StatusMessage(pollingStates[id], now)]]
    /\ UNCHANGED <<now, pollingStates, windData, sched, reader, clients, lastCall,
                   chans, ticks, missRun, u, proc, published>>

\* pollingStatesMutex.RUnlock(); the handler enters its loop
LegacySSEUnlocksStates(i) ==
    /\ conns[i].pc = "sendstatus"
    /\ conns[i].todo = <<>>
    /\ pollingStatesMutex' = [pollingStatesMutex EXCEPT !.readers = @ \ {conns[i].id}]
    /\ conns' = [conns EXCEPT ![i].pc = "stream", ![i].held = {}]
    /\ UNCHANGED <<now, pollingStates, windData, sched, reader, clients, lastCall,
                   chans, ticks, missRun, u, proc, published>>

NextLegacy ==
    \/ \E g \in Goroutines :
          \/ Tick(g, MaxLegacyTicks)
          \/ LegacyPollBegin(g)
          \/ LegacyCollect(g)
          \/ FetchCall(g)
          \/ FetchFails(g)
          \/ LegacyFetchSucceeds(g)
          \/ LegacyReturn(g)
    \/ HandleMetricsLock
    \/ HandleMetricsReturn
    \/ \E c \in ClientIDs : LegacySSERegisters(c)
    \/ \E i \in DOMAIN conns :
          \/ LegacySSELocksWind(i)
          \/ LegacySSESends(i)
          \/ LegacySSEUnlocksWind(i)
          \/ LegacySSELocksStates(i)
          \/ LegacySSEUnlocksStates(i)
          \/ HandlerReceives(i)
          \/ HandlerContextDone(i)

\* one station; the initial poll is about to run
InitLegacy ==
    /\ InitWith(SubSeq(AllStations, 1, 1))
    /\ sched = [g \in Goroutines |-> [pc |-> "begin"]]
    /\ u = UOff

SpecLegacy == InitLegacy /\ [][NextLegacy]_vars

\* C23: in main.go no lock is held while an upstream fetch runs or while
\* handleSSE is at a send of its initial snapshot: during a fetch nobody holds
\* pollingStatesMutex for writing, so handleMetrics can take its read lock, and
\* a handler with a snapshot message to send holds neither mutex.
C23_NoLockAcrossFetchOrSend ==
    /\ \A g \in Goroutines :
          sched[g].pc = "fetching" =>
              /\ pollingStatesMutex.writer = None
              /\ reader.pc = "idle" => ENABLED HandleMetricsLock
    /\ \A i \in DOMAIN conns :
          (conns[i].pc \in {"sendwind", "sendstatus"} /\ conns[i].todo # <<>>)
              => conns[i].held = {}


-----------------------------------------------------------------------------
(* Start and Stop as calls with a return value: the caller of the           *)
(* observations manager beside the scheduler goroutine                      *)

\* everything a call of Start or Stop can touch or leave alone, but the record
\* of the call
lifeFrame == <<now, pollingStates, windData, pollingStatesMutex, sched, reader,
               clients, lastCall, chans, ticks, missRun, proc, conns, published>>

\* the record of a returned call: which method, what it returned, and whether
\* the manager was running when it was called
Returned(call, err) ==
    [pc |-> "returned", call |-> call, err |-> err, running |-> proc.isRunning]

\* Start: the error for a running manager, before anything else is done
StartCall ==
    IF proc.isRunning
    THEN u' = Returned("Start", "already running") /\ UNCHANGED lifeFrame
    ELSE u' = Returned("Start", "nil") /\ StartOk

StopCall_always ==
    /\ u' = Returned("Stop", IF proc.stopCh > 0 THEN "panic" ELSE "nil")
    /\ StopOk

\* Stop: nil for a manager that is not running, before anything else is done
StopCall ==
    IF ~proc.isRunning
    THEN u' = Returned("Stop", "nil") /\ UNCHANGED lifeFrame
    ELSE /\ u' = Returned("Stop", IF proc.stopCh > 0 THEN "panic" ELSE "nil")
         /\ StopOk

NextCalls ==
    \/ StartCall
    \/ StopCall
    \/ \E g \in Goroutines : SchedulerExits(g) \/ Round(g)

SpecCalls == InitLife /\ [][NextCalls]_vars

\* a call of Start or Stop returns in this step
Returns(call, running) ==
    /\ u' # u
    /\ u'.call = call
    /\ u'.running = running

\* C24: Start on a running manager returns an error and starts no scheduler
\* goroutine (nothing of the manager changes: not the goroutine, not the count
\* of started schedulers, not the loaded state); Stop on a manager that is not
\* running returns nil and saves nothing, signals nothing and changes nothing
C24_RefusedStartAndIdleStop ==
    [][/\ Returns("Start", TRUE) =>
              /\ u'.err # "nil"
              /\ UNCHANGED <<sched, proc, pollingStates, windData>>
       /\ Returns("Stop", FALSE) =>
              /\ u'.err = "nil"
              /\ UNCHANGED <<sched, proc, pollingStates, windData,
                             pollingStatesMutex>>]_vars

\* Start was refused while the scheduler goroutine of the first Start was in a
\* round
C24_Witness ==
    /\ u = [pc |-> "returned", call |-> "Start", err |-> "already running",
            running |-> TRUE]
    /\ proc.starts = 1
    /\ \E g \in Goroutines : sched[g].pc = "fetching"

\* a Stop found the manager stopped, after the Stop that stopped it
IdleStopReturned ==
    /\ u = [pc |-> "returned", call |-> "Stop", err |-> "nil", running |-> FALSE]
    /\ proc.stopCh = 1


-----------------------------------------------------------------------------
(* The Latest-Value store and the PollState map behind the read methods of  *)
(* the manager, with a caller that writes into what it was handed           *)

MaxUpserts == 3
MaxStoreTicks == 1
MaxWrites == 1

\* the zero WindObservation a failed lookup returns
NoWindObservation == WindObservationOf("", NoObservation, ZeroTime)

\* GetLatestObservation(stationID): obs, exists := m.windData[stationID]
GetLatestObservation(stationID) ==
    IF stationID \in DOMAIN windData
    THEN [obs |-> windData[stationID], exists |-> TRUE]
    ELSE [obs |-> NoWindObservation, exists |-> FALSE]

GetAllLatestObservations_reference == [ref |-> "windData", result |-> windData]

\* GetAllLatestObservations: a new map with every entry of m.windData
GetAllLatestObservations ==
    [ref |-> "copy", result |-> [k \in DOMAIN windData |-> windData[k]]]

\* GetPollingState(stationID): the struct behind the pointer, copied
GetPollingState(stationID) ==
    IF stationID \in DOMAIN pollingStates
    THEN [ref |-> "copy", result |-> pollingStates[stationID], exists |-> TRUE]
    ELSE [ref |-> "copy", result |-> NewPollingState(""), exists |-> FALSE]

storeFrame == <<pollingStatesMutex, sched, reader, clients, lastCall, ticks,
                missRun, proc, conns>>

updateWindData_other(stationID, obs) ==
    /\ Len(published) < MaxUpserts
    /\ LET windObs == WindObservationOf(stationID, obs, now)
           other == CHOOSE s \in StationIDs : s # stationID
       IN  /\ windData' = MapPut(MapPut(windData, stationID, windObs), other, windObs)
           /\ chans' = Broadcast(chans, clients, DataMessage(stationID, windObs, now), now)
           /\ published' = Append(published,
                                  Stamp(DataMessage(stationID, windObs, now), now))
    /\ UNCHANGED storeFrame
    /\ UNCHANGED <<now, pollingStates, u>>

\* updateWindData(stationID, obs): the reading is stored under the station's id
\* and broadcast as a data event
updateWindData(stationID, obs) ==
    /\ Len(published) < MaxUpserts
    /\ LET windObs == WindObservationOf(stationID, obs, now)
       IN  /\ windData' = MapPut(windData, stationID, windObs)
           /\ chans' = Broadcast(chans, clients, DataMessage(stationID, windObs, now), now)
           /\ published' = Append(published,
                                  Stamp(DataMessage(stationID, windObs, now), now))
    /\ UNCHANGED storeFrame
    /\ UNCHANGED <<now, pollingStates, u>>

\* a caller calls one of the three read methods and keeps what it returns
CallerReads ==
    /\ \E call \in {[call |-> "GetLatestObservation", id |-> id,
                     ret |-> GetLatestObservation(id)] : id \in StationIDs}
                   \cup {[call |-> "GetAllLatestObservations", id |-> "",
                          ret |-> GetAllLatestObservations]}
                   \cup {[call |-> "GetPollingState", id |-> id,
                          ret |-> GetPollingState(id)] : id \in StationIDs} :
          u' = [pc |-> "returned", call |-> call.call, id |-> call.id,
                ret |-> call.ret, writes |-> 0]
    /\ UNCHANGED storeFrame
    /\ UNCHANGED <<now, pollingStates, windData, chans, published>>

\* the caller changes what it holds: observations["test"] = WindObservation{
\* StationID: "test"} on the returned map, a field of the returned PollingState.
\* A returned value that is the manager's own map is changed in the manager
CallerWrites ==
    /\ u.pc = "returned"
    /\ u.call \in {"GetAllLatestObservations", "GetPollingState"}
    /\ u.writes < MaxWrites
    /\ LET test == WindObservationOf("test", NoObservation, ZeroTime)
       IN  IF u.call = "GetAllLatestObservations"
           THEN \E k \in {"test"} \cup StationIDs :
                   IF u.ret.ref = "copy"
                   THEN /\ u' = [u EXCEPT !.ret.result = MapPut(@, k, test),
                                          !.writes = @ + 1]
                        /\ UNCHANGED windData
                   ELSE /\ u' = [u EXCEPT !.writes = @ + 1]
                        /\ windData' = MapPut(windData, k, test)
           ELSE /\ u' = [u EXCEPT !.ret.result.CurrentInterval = IntervalUltraSlow,
                                  !.writes = @ + 1]
                /\ UNCHANGED windData
    /\ UNCHANGED storeFrame
    /\ UNCHANGED <<now, pollingStates, chans, published>>

StoreTick ==
    /\ ticks < MaxStoreTicks
    /\ ticks' = ticks + 1
    /\ now' = now + 60
    /\ UNCHANGED <<pollingStates, windData, pollingStatesMutex, sched, reader,
                   clients, lastCall, chans, missRun, u, proc, conns, published>>

\* both stations have a PollingState, no reading was stored yet
InitStore ==
    /\ InitFrom(AllStations,
                [s \in StationIDs |-> [NewPollingState(s) EXCEPT !.TotalPolls = 1]],
                << >>)
    /\ sched = [g \in Goroutines |-> [pc |-> "exited"]]
    /\ u = UOff

NextStore ==
    \/ \E id \in StationIDs, speed \in {52, 61} : updateWindData(id, Obs(now, speed))
    \/ CallerReads
    \/ CallerWrites
    \/ StoreTick

SpecStore == InitStore /\ [][NextStore]_vars


\* the readings stored for a station so far, in the order of the calls (every
\* updateWindData leaves one data event)
UpsertsOf(id) ==
    SelectSeq(published, LAMBDA e : e.Type = "data" /\ e.StationID = id)

\* C25: GetLatestObservation(id) returns the reading of the latest
\* updateWindData for id, and the zero value with false for an id that was
\* never stored; an updateWindData for one id leaves what is returned for every
\* other id as it was
C25_LatestValuePerStation ==
    /\ [](\A id \in StationIDs :
             LET h == UpsertsOf(id)
             IN  GetLatestObservation(id) =
                     IF h = <<>> THEN [obs |-> NoWindObservation, exists |-> FALSE]
                     ELSE [obs |-> h[Len(h)].Data, exists |-> TRUE])
    /\ [][(u' # u /\ u'.call = "GetLatestObservation")
              => u'.ret = GetLatestObservation(u'.id)]_vars
    /\ [][\A id \in StationIDs :
             (published' # published /\ published'[Len(published')].StationID # id)
                 => GetLatestObservation(id)' = GetLatestObservation(id)]_vars

\* a station was stored twice with different readings, the other station in
\* between, and the caller was handed the second reading
C25_Witness ==
    /\ u.pc = "returned"
    /\ u.call = "GetLatestObservation"
    /\ Len(published) = 3
    /\ published[1].StationID = u.id
    /\ published[2].StationID # u.id
    /\ published[3].StationID = u.id
    /\ published[1].Data # published[3].Data
    /\ u.ret = [obs |-> published[3].Data, exists |-> TRUE]

\* the caller has just written into what a read method returned
CallerWrote ==
    /\ u.pc = "returned"
    /\ u'.pc = "returned"
    /\ u'.writes = u.writes + 1

\* C26: a write into the map returned by GetAllLatestObservations, or into the
\* PollingState returned by GetPollingState, changes nothing of what
\* GetLatestObservation, GetAllLatestObservations and GetPollingState return
C26_ReadsAreCopies ==
    [][CallerWrote =>
          /\ GetAllLatestObservations' = GetAllLatestObservations
          /\ \A id \in StationIDs \cup {"test"} :
                /\ GetLatestObservation(id)' = GetLatestObservation(id)
                /\ GetPollingState(id)' = GetPollingState(id)]_vars

\* the caller holds a map with an entry the store does not have, over a store
\* that is not empty
C26_Witness ==
    /\ u.pc = "returned"
    /\ u.call = "GetAllLatestObservations"
    /\ u.writes = 1
    /\ windData # << >>
    /\ "test" \in DOMAIN u.ret.result
    /\ "test" \notin DOMAIN windData

\* the caller changed the tier in its PollingState, the manager's keeps its own
CallerChangedItsPollingState ==
    /\ u.pc = "returned"
    /\ u.call = "GetPollingState"
    /\ u.writes = 1
    /\ u.ret.result.CurrentInterval # pollingStates[u.id].CurrentInterval


-----------------------------------------------------------------------------
(* analyzeObservationIntervals called on its own                            *)

\* the lists it is called with: none, one, two or three observations with gaps
\* around every threshold, and a pair that is out of order
AnalyzeInputs ==
    ObsInputs \cup {<<Obs(ObsBase, 52), Obs(ObsBase - 60, 52)>>}

InitAnalyze ==
    /\ InitQuiet
    /\ sched = [g \in Goroutines |-> [pc |-> "exited"]]
    /\ u \in {[pc |-> "call", fn |-> "analyze", obs |-> o] : o \in AnalyzeInputs}

CallAnalyzeObservationIntervals ==
    /\ u.pc = "call" /\ u.fn = "analyze"
    /\ u' = [pc |-> "done", fn |-> "analyze", obs |-> u.obs,
             ret |-> analyzeObservationIntervals(u.obs)]
    /\ UNCHANGED otherVars
    /\ UNCHANGED <<now, pollingStates, windData, pollingStatesMutex, sched, reader,
                   clients, lastCall, chans, ticks, missRun>>

NextAnalyze == CallAnalyzeObservationIntervals

SpecAnalyze == InitAnalyze /\ [][NextAnalyze]_vars

\* the gaps between consecutive observations of a list
GapsOf(observations) ==
    {observations[i].Timestamp - observations[i-1].Timestamp :
        i \in 2..Len(observations)}

\* what the analysis has to return when the gaps in kept are the ones that count
AnalysisIs(ret, observations, kept) ==
    /\ Len(observations) < 2 => ~ret.ok
    /\ (Len(observations) >= 2 /\ kept = {}) => ~ret.ok
    /\ (Len(observations) >= 2 /\ kept # {}) =>
           /\ ret.ok
           /\ ret.d \in kept
           /\ \A g \in kept : ret.d <= g

\* C27, as the code has it: not-ok for fewer than two observations; otherwise
\* the minimum over the gaps that are longer than 30 seconds and shorter than 2
\* hours (a gap of exactly 30 seconds or exactly 2 hours is discarded with the
\* shorter and the longer ones), not-ok when none is left; observations 10
\* minutes apart give 10 minutes
C27_MinimumOfGapsStrictlyBetween ==
    (u.pc = "done" /\ u.fn = "analyze") =>
        /\ AnalysisIs(u.ret, u.obs, {g \in GapsOf(u.obs) : g > 30 /\ g < 7200})
        /\ TenMinutesApart(u.obs) => u.ret = [d |-> 600, ok |-> TRUE]

\* C27, as stated: the gaps discarded are those shorter than 30 seconds or
\* longer than 2 hours, a gap of exactly 30 seconds or exactly 2 hours is kept
C27_MinimumOfGapsBetween ==
    (u.pc = "done" /\ u.fn = "analyze") =>
        /\ AnalysisIs(u.ret, u.obs, {g \in GapsOf(u.obs) : g >= 30 /\ g <= 7200})
        /\ TenMinutesApart(u.obs) => u.ret = [d |-> 600, ok |-> TRUE]

\* a list whose only other gap is exactly 2 hours was analysed: the answer is the
\* 10 minutes of the gap that counts
C27_Witness ==
    /\ u.pc = "done" /\ u.fn = "analyze"
    /\ GapsOf(u.obs) = {7200, 600}
    /\ u.ret = [d |-> 600, ok |-> TRUE]


-----------------------------------------------------------------------------
(* One round over one station, with an upstream whose response also holds   *)
(* readings out of range; fetchWindDataBatch converts the response          *)

\* the readings query.Execute may hand over for one station over [startTime,
\* endTime]: one or two, each with a speed of -1.0 or 5.2 m/s and a direction
\* of 225 or 450 degrees
ParsedSeries(startTime, endTime) ==
    LET readings(t) == {FMIWindObservation(t, speed, direction) :
                           speed \in {-10, 52}, direction \in {225, 450}}
    IN  {<<r>> : r \in readings(endTime)}
        \cup (IF endTime - 60 >= startTime
              THEN {<<q, r>> : q \in readings(endTime - 60), r \in readings(endTime)}
              ELSE {})

\* the "Only include valid observations" loop over one station of the response
StationResults(observations) ==
    SelectSeq(observations, LAMBDA windObs : windObs.WindSpeed >= 0
                                             /\ windObs.WindSpeed < 1000)

\* fetchWindDataBatch: the response converted station by station
fetchWindDataBatch(response) ==
    [id \in DOMAIN response |-> StationResults(response[id])]

\* the fetch returns a response; u keeps it as it came
FetchConverts(g) ==
    /\ sched[g].pc = "fetching"
    /\ \E response \in [BatchIDs(sched[g].toPoll, sched[g].inflight.batch)
                            -> ParsedSeries(sched[g].inflight.start, sched[g].endTime)] :
          /\ FetchReturns(g, fetchWindDataBatch(response))
          /\ u' = [pc |-> "answered", response |-> response]

NextFetch ==
    \/ \E c \in ClientIDs : ClientConnects(c)
    \/ \E g \in Goroutines :
          \/ PollBegin(g)
          \/ Phase1Collect(g)
          \/ FetchCall(g)
          \/ FetchConverts(g)
          \/ Phase3Lock(g)
          \/ Phase3Write(g)

SpecFetch == InitReply /\ [][NextFetch]_vars

\* the reading is in range
InRange(reading) ==
    /\ reading.WindSpeed >= 0
    /\ reading.WindDirection <= 360

\* the readings the round has handed to updatePollingState, the readings it has
\* published, and the readings in the store
ReadingsSeen ==
    {windData[id] : id \in DOMAIN windData}
    \cup UNION {{sched[g].events[i].Data : i \in {j \in 1..Len(sched[g].events) :
                                                   sched[g].events[j].Type = "data"}} :
                   g \in {h \in Goroutines : InRound(h)}}

\* C28: no reading with a negative wind speed or with a wind direction above
\* 360 degrees is in the Latest-Value store or in a published data event
C28_OutOfRangeNeverStored ==
    \A reading \in ReadingsSeen : InRange(reading)

\* the part that holds: no reading with a negative wind speed is stored or
\* published
NegativeSpeedNeverStored ==
    \A reading \in ReadingsSeen : reading.WindSpeed >= 0

\* a response with a negative speed in its only reading was processed: nothing
\* is stored
NegativeSpeedDiscarded ==
    /\ u.pc = "answered"
    /\ \E id \in DOMAIN u.response :
          /\ Len(u.response[id]) = 1
          /\ u.response[id][1].WindSpeed < 0
          /\ id \notin DOMAIN windData


-----------------------------------------------------------------------------
(* Claims about Stop and the scheduler goroutine *)

\* Stop has returned and the manager was not started again
Stopped == ~proc.isRunning /\ proc.stopCh > 0

StopFoundSchedulerExited ==
    [](Stopped => \A g \in Goroutines : sched[g].pc = "exited")

NoMutationAfterStop ==
    [][(Stopped /\ Stopped') => UNCHANGED <<pollingStates, windData>>]_vars

FilesHoldEveryRound ==
    [](Stopped => /\ proc.stateFile = savePollingStates(pollingStates)
                  /\ proc.windDataFile = saveWindData(windData))

\* C29: when Stop has returned the scheduler goroutine has ended, so no round is
\* in progress, neither the PollState map nor the Latest-Value store changes
\* any more, and the two files Stop wrote hold what the maps hold, the results
\* of a round that was in flight included
C29_StopWaitsForScheduler ==
    /\ StopFoundSchedulerExited
    /\ NoMutationAfterStop
    /\ FilesHoldEveryRound


-----------------------------------------------------------------------------
(* Claims about the order of storing and publishing in a round *)

\* the events the round of g publishes in this step
NewEvents(g) ==
    {sched'[g].events[i] : i \in (Len(sched[g].events) + 1)..Len(sched'[g].events)}

\* when a data event has been published the Latest-Value store holds its reading
DataStoredBeforePublished ==
    [][\A g \in Goroutines :
          BatchProcessed(g) =>
              \A e \in NewEvents(g) :
                  e.Type = "data" =>
                      /\ e.StationID \in DOMAIN windData'
                      /\ windData'[e.StationID] = e.Data]_vars

\* when a status event has been published the PollState map holds its tier
StatusStoredBeforePublished ==
    [][\A g \in Goroutines :
          BatchProcessed(g) =>
              \A e \in NewEvents(g) :
                  e.Type = "status" =>
                      /\ e.StationID \in DOMAIN pollingStates'
                      /\ formatInterval(pollingStates'[e.StationID].CurrentInterval)
                             = e.Data.interval]_vars

\* C30: store before publish: at the moment a status event is published the
\* shared PollState map already holds the tier it announces, and at the moment
\* a data event is published the Latest-Value store already holds its reading
C30_StoreBeforePublish ==
    /\ StatusStoredBeforePublished
    /\ DataStoredBeforePublished


-----------------------------------------------------------------------------
(* Claims about the replacement of a connection *)

\* connection j is the latest one that subscribed under its id
Newest(j) == \A k \in DOMAIN conns : conns[k].id = conns[j].id => k <= j

\* C31: the connection that replaced another under the same id stays in the
\* subscriber set with an open queue for as long as its own handler is in its
\* event loop, whatever the handler of the replaced connection does on its way
\* out
C31_ReplacementStaysRegistered ==
    \A j \in DOMAIN conns :
        (Newest(j) /\ conns[j].pc = "stream") =>
            /\ conns[j].id \in DOMAIN clients
            /\ clients[conns[j].id] = j
            /\ chans[j].closed = 0


-----------------------------------------------------------------------------
(* Start, Stop and Start again: the scheduler goroutine of the first Start  *)
(* beside the one of the second, over one station                           *)

MaxRestartTicks == 1

\* the goroutines two calls of Start launch
Schedulers == {"g1", "g2"}

InitRestart ==
    /\ InitWith(SubSeq(AllStations, 1, 1))
    /\ sched = [g \in Schedulers |-> [pc |-> "exited"]]
    /\ u = UOff

NextRestart ==
    \/ Start
    \/ Stop
    \/ \E g \in Schedulers :
          SchedulerExits(g) \/ Tick(g, MaxRestartTicks) \/ Round(g)

SpecRestart == InitRestart /\ [][NextRestart]_vars

\* the goroutines that are inside pollDueStations
RoundsInProgress == {g \in DOMAIN sched : Polling(g)}

\* C32: at most one round is in progress on a manager at any time
C32_OneRoundAtATime == Cardinality(RoundsInProgress) <= 1

\* the write-back of a round finds every PollingState it copied as it was at
\* the copy, but for what the copy loop itself did
NoLostWriteBack ==
    [][\A g \in DOMAIN sched :
          (sched[g].pc = "writeback" /\ sched'[g].pc = "select") =>
              \A r \in {sched[g].log[i] : i \in 1..Len(sched[g].log)} :
                  pollingStates[r.id] = r.before]_vars


-----------------------------------------------------------------------------
(* Claims about restarting the manager *)

\* the scheduler goroutine of a running manager stays in its loop
RunningSchedulerStays ==
    [][\A g \in DOMAIN sched :
          (proc.isRunning /\ proc'.isRunning /\ sched[g].pc = "select")
              => sched'[g].pc # "exited"]_vars

\* no call of Stop ends in the panic of a second close(stopCh)
StopNeverPanics == [](u.pc = "returned" => u.err # "panic")

\* C33: the manager can be restarted: the scheduler goroutine of a Start that
\* follows a Stop stays in its loop, a round for every tick, until the next
\* Stop, and no Stop closes the stop channel a second time
C33_Restartable ==
    /\ RunningSchedulerStays
    /\ StopNeverPanics


-----------------------------------------------------------------------------
(* One round over one station whose last observation lies before, at or     *)
(* after the start of the default window                                    *)

\* what earlier rounds left for the station: never observed, or last observed
\* 90 s, two hours less a second, two hours, two hours and a second, or two and
\* a half hours before the round
WindowStates ==
    {[NewPollingState(AllStations[1]) EXCEPT
         !.LastPolled = StartTime - 86400, !.LastObservation = lastObservation,
         !.TotalPolls = 1, !.SuccessfulPolls = 1, !.SuccessRate = Rate(1, 1)] :
        lastObservation \in {ZeroTime} \cup {StartTime - back :
                                                back \in {90, 7199, 7200, 7201, 9000}}}

InitWindow ==
    /\ \E state \in WindowStates :
          InitFrom(SubSeq(AllStations, 1, 1),
                   [id \in {state.StationID} |-> state], << >>)
    /\ sched = [g \in Goroutines |-> [pc |-> "begin"]]
    /\ u = UOff

SpecWindow == InitWindow /\ [][NextReply]_vars

\* C34: the window of every fetch starts strictly after the last observation
\* of every station of its batch
C34_WindowStartsAfterLastObservation ==
    \A g \in Goroutines :
        sched[g].pc = "fetching" =>
            \A j \in 1..Len(sched[g].inflight.batch) :
                sched[g].inflight.start
                    > sched[g].toPoll[sched[g].inflight.batch[j]].LastObservation

\* the same but for a last observation exactly two hours before the round
WindowStartsAfterLastObservationButAtTwoHours ==
    \A g \in Goroutines :
        sched[g].pc = "fetching" =>
            \A j \in 1..Len(sched[g].inflight.batch) :
                LET state == sched[g].toPoll[sched[g].inflight.batch[j]]
                IN  \/ sched[g].inflight.start > state.LastObservation
                    \/ /\ state.LastObservation = sched[g].endTime - 7200
                       /\ sched[g].inflight.start = state.LastObservation


-----------------------------------------------------------------------------
(* Claims about the PollingStates a round creates and keeps *)

\* the ids of the registry
Registry == {proc.stations[i] : i \in 1..Len(proc.stations)}

\* phase 1 of the first pass of a manager that loaded nothing runs in this step
FirstPass(g) ==
    /\ sched[g].pc = "collect"
    /\ pollingStates = << >>
    /\ sched'[g].pc # "collect"

\* C35: with nothing persisted, phase 1 of the first pass creates a
\* PollingState for every station of the registry, at Fast with zero counters
\* and no miss, and finds every station due, with or without a subscriber;
\* from then on the stations with a PollingState are those of the registry,
\* and the set never loses a station
C35_FirstPassCreatesAll ==
    /\ [][\A g \in Goroutines :
             FirstPass(g) =>
                 /\ DOMAIN pollingStates' = Registry
                 /\ \A id \in Registry :
                       /\ pollingStates'[id].StationID = id
                       /\ pollingStates'[id].CurrentInterval = IntervalFast
                       /\ pollingStates'[id].ConsecutiveMisses = 0
                       /\ pollingStates'[id].TotalPolls = 0
                       /\ pollingStates'[id].SuccessfulPolls = 0
                 /\ sched'[g].pc = "process"
                 /\ {sched'[g].toPoll[i].StationID : i \in 1..Len(sched'[g].toPoll)}
                        = Registry]_vars
    /\ [](pollingStates # << >> => DOMAIN pollingStates = Registry)
    /\ [][DOMAIN pollingStates \subseteq DOMAIN pollingStates']_vars

\* the first pass ran with no subscriber connected and found both stations due
C35_Witness ==
    /\ DOMAIN pollingStates = Registry
    /\ ticks = 0
    /\ \E g \in Goroutines :
          /\ sched[g].pc = "process"
          /\ ~sched[g].hasSSEClients
          /\ Len(sched[g].toPoll) = Len(proc.stations)

\* the first pass ran with a subscriber connected
FirstPassWithSubscriber ==
    \E g \in Goroutines :
        /\ sched[g].pc = "process"
        /\ sched[g].hasSSEClients
        /\ ticks = 0
        /\ Len(sched[g].toPoll) = Len(proc.stations)


-----------------------------------------------------------------------------
(* One round over one station at any tier, polled a minute, ten minutes, an *)
(* hour or a day before, with or without a subscriber                       *)

IdleStates ==
    {[NewPollingState(AllStations[1]) EXCEPT
         !.CurrentInterval = tier, !.LastPolled = StartTime - elapsed,
         !.LastObservation = StartTime - 90,
         !.TotalPolls = 1, !.SuccessfulPolls = 1, !.SuccessRate = Rate(1, 1)] :
        tier \in Tiers, elapsed \in Tiers}

InitIdle ==
    /\ \E state \in IdleStates :
          InitFrom(SubSeq(AllStations, 1, 1),
                   [id \in {state.StationID} |-> state], << >>)
    /\ sched = [g \in Goroutines |-> [pc |-> "begin"]]
    /\ u = UOff

SpecIdle == InitIdle /\ [][NextReply]_vars

\* C36: with no subscriber connected a station is polled only when the
\* interval of its stored tier has passed since its last poll, for each of the
\* four tiers
C36_IdleNeverFaster ==
    \A g \in Goroutines :
        (Phase1Seen(g) /\ ~sched[g].hasSSEClients) =>
            \A id \in DueIDs(g) :
                Elapsed(id) >= pollingStates[id].CurrentInterval

\* the same for the tiers up to Slow
IdleNeverFasterUpToSlow ==
    \A g \in Goroutines :
        (Phase1Seen(g) /\ ~sched[g].hasSSEClients) =>
            \A id \in DueIDs(g) :
                pollingStates[id].CurrentInterval # IntervalUltraSlow =>
                    Elapsed(id) >= pollingStates[id].CurrentInterval


-----------------------------------------------------------------------------
(* Claims about updatePollingState and updateFailedPollingState on their own *)

\* C37: a success with data never moves a station to a slower tier: after
\* updatePollingState with at least one observation the interval is the one
\* before or a shorter one
C37_SuccessNeverSlower ==
    USuccess => u.after.CurrentInterval <= u.before.CurrentInterval

\* a station at UltraSlow whose only gap that counts, a second short of two
\* hours, rounds to UltraSlow again
C37_Witness ==
    /\ USuccess
    /\ u.before.CurrentInterval = IntervalUltraSlow
    /\ ValidGaps(u.obs) = {7199}
    /\ u.after.CurrentInterval = IntervalUltraSlow

-----------------------------------------------------------------------------
(* Rounds over one station with a fetch client that answers with readings   *)
(* of any age in any order: nothing between query.Execute and               *)
(* updatePollingState compares a timestamp with the window asked for        *)

MaxStaleTicks == 1

\* what fetchWindDataBatch may return for one station whatever window was
\* asked for: up to MaxSeries valid readings taken now, a minute ago or three
\* hours ago (before every window), in any order
AnySeries(endTime) ==
    LET times == {endTime - 10800, endTime - 60, endTime}
    IN  {[i \in 1..Len(s) |-> Obs(s[i], 52)] :
            s \in UNION {[1..n -> times] : n \in 0..MaxSeries}}

\* the fetch returns a map: every station of the batch is processed
FetchAnswersAny(g) ==
    /\ sched[g].pc = "fetching"
    /\ \E results \in UNION {[ids -> AnySeries(sched[g].endTime)] :
                               ids \in SUBSET BatchIDs(sched[g].toPoll,
                                                       sched[g].inflight.batch)} :
          /\ FetchReturns(g, results)
          /\ u' = [pc |-> "answered", results |-> results]

NextStale ==
    \/ \E c \in ClientIDs : ClientConnects(c)
    \/ \E g \in Goroutines :
          \/ Tick(g, MaxStaleTicks)
          \/ PollBegin(g)
          \/ Phase1Collect(g)
          \/ FetchCall(g)
          \/ FetchAnswersAny(g)
          \/ Phase3Lock(g)
          \/ Phase3Write(g)

SpecStale == InitReply /\ [][NextStale]_vars

\* no step takes the last-observation time of a station backwards
LastObservationNeverBackwards ==
    [][\A id \in DOMAIN pollingStates :
          pollingStates'[id].LastObservation >= pollingStates[id].LastObservation]_vars

\* no step takes the timestamp of a station's latest reading backwards
LatestReadingNeverBackwards ==
    [][\A id \in DOMAIN windData :
          windData'[id].Timestamp >= windData[id].Timestamp]_vars

\* C38: from one round to the next, neither the last-observation time of a
\* station's PollingState nor the timestamp of its latest reading moves
\* backwards, whatever the fetch client returned
C38_ObservationTimeNeverBackwards ==
    LastObservationNeverBackwards /\ LatestReadingNeverBackwards

\* the same for rounds whose fetch client answers inside the window only
\* (checked under Spec and SpecReply)
ObservationTimeNeverBackwardsInsideWindow ==
    [][/\ \A id \in DOMAIN pollingStates :
             pollingStates'[id].LastObservation >= pollingStates[id].LastObservation
       /\ \A id \in DOMAIN windData :
             windData'[id].Timestamp >= windData[id].Timestamp]_vars

-----------------------------------------------------------------------------
(* One round over two stations of which the second may have been polled    *)
(* half a minute ago, with readings stored by earlier rounds                *)

\* what earlier rounds left for the two stations: the first is due, the
\* second is due, was polled 30 s ago, or has no PollingState yet
PartialStates ==
    LET due(id, back) ==
            [NewPollingState(id) EXCEPT
                !.LastPolled = StartTime - 86400, !.LastObservation = StartTime - back,
                !.TotalPolls = 2, !.SuccessfulPolls = 1, !.SuccessRate = Rate(1, 2),
                !.ConsecutiveMisses = 1]
        fresh(id, tier) ==
            [NewPollingState(id) EXCEPT
                !.CurrentInterval = tier,
                !.LastPolled = StartTime - 30, !.LastObservation = StartTime - 90,
                !.TotalPolls = 1, !.SuccessfulPolls = 1, !.SuccessRate = Rate(1, 1)]
        first == AllStations[1]
        second == AllStations[2]
    IN  {[id \in {first} |-> due(id, 90)]}
        \cup {[id \in {first, second} |->
                  IF id = first THEN due(id, 90) ELSE s] :
                 s \in {due(second, 90), due(second, 9000)}
                       \cup {fresh(second, tier) : tier \in {IntervalFast, IntervalSlow}}}

\* the readings earlier rounds stored for the stations that have a PollingState
PartialData(states) ==
    {[id \in ids |-> WindObservationOf(id, Obs(states[id].LastObservation, 52),
                                       states[id].LastPolled)] :
        ids \in SUBSET DOMAIN states}

InitPartial ==
    /\ \E states \in PartialStates : \E data \in PartialData(states) :
          InitFrom(AllStations, states, data)
    /\ sched = [g \in Goroutines |-> [pc |-> "begin"]]
    /\ u = UOff

NextPartial ==
    \/ \E c \in ClientIDs : ClientConnects(c)
    \/ \E g \in Goroutines :
          \/ PollBegin(g)
          \/ Phase1Collect(g)
          \/ FetchCall(g)
          \/ FetchAnswers(g)
          \/ FetchFails(g)
          \/ Phase3Lock(g)
          \/ Phase3Write(g)

SpecPartial == InitPartial /\ [][NextPartial]_vars

\* the step is the write-back of a round that found the station due in phase 1
WrittenBack(g, id) == sched[g].pc = "writeback" /\ id \in DueIDs(g)

\* the step processes a response that holds at least one reading of the station
ReadingReturned(g, id) ==
    /\ BatchProcessed(g)
    /\ \E r \in NewRecords(g) : r.id = id /\ r.kind # "failed"
    /\ u'.pc = "answered"
    /\ id \in DOMAIN u'.results
    /\ u'.results[id] # <<>>

\* C39: a round changes the PollingState of a station only in the write-back
\* and only if phase 1 found the station due; it changes the stored reading
\* of a station only when the response holds a reading of it; and it removes
\* no stored reading.
C39_RoundFrame ==
    /\ [][\A id \in DOMAIN pollingStates :
             pollingStates'[id] # pollingStates[id]
                 => \E g \in Goroutines : WrittenBack(g, id)]_vars
    /\ [][\A id \in StationIDs :
             \/ id \in DOMAIN windData /\ id \in DOMAIN windData'
                   /\ windData'[id] = windData[id]
             \/ id \notin DOMAIN windData /\ id \notin DOMAIN windData'
             \/ id \in DOMAIN windData'
                   /\ \E g \in Goroutines : ReadingReturned(g, id)]_vars

\* a round ends in which the second station was not due and kept its
\* PollingState, the first was written back and received a reading, and the
\* second kept its stored reading
C39_Witness ==
    /\ \A g \in Goroutines : sched[g].pc = "select" /\ "due" \notin DOMAIN sched[g]
    /\ ticks = 0
    /\ DOMAIN pollingStates = StationIDs
    /\ pollingStates[AllStations[2]].LastPolled = StartTime - 30
    /\ pollingStates[AllStations[1]].LastPolled = StartTime
    /\ DOMAIN windData = StationIDs
    /\ windData[AllStations[1]].Timestamp = StartTime
    /\ windData[AllStations[2]].Timestamp = StartTime - 90
    /\ u.pc = "answered"

-----------------------------------------------------------------------------
(* The counters of a PollingState after one poll attempt                    *)

\* the stored rate is the quotient succ / total (compared as fractions)
SameRate(rate, succ, total) == rate[1] * total = succ * rate[2]

\* after an attempt there are at most as many successful polls as polls, and
\* one poll more than before
CountersAfterAttempt ==
    u.pc = "done" =>
        /\ u.after.SuccessfulPolls <= u.after.TotalPolls
        /\ u.after.TotalPolls = u.before.TotalPolls + 1

\* after updatePollingState, with data or without, the stored rate is the
\* quotient of the counters
RateAfterUpdatePollingState ==
    u.pc = "done" /\ u.fn = "update" =>
        SameRate(u.after.SuccessRate, u.after.SuccessfulPolls, u.after.TotalPolls)

\* C40: after every poll attempt of a station (data, no data, or a failed
\* batch call) SuccessfulPolls <= TotalPolls, TotalPolls grew by one, and
\* SuccessRate = SuccessfulPolls / TotalPolls.
C40_CountersAndRate ==
    u.pc = "done" =>
        /\ u.after.SuccessfulPolls <= u.after.TotalPolls
        /\ u.after.TotalPolls = u.before.TotalPolls + 1
        /\ SameRate(u.after.SuccessRate, u.after.SuccessfulPolls, u.after.TotalPolls)

=============================================================================
